---- MODULE Spec2Model ----
(***************************************************************************)
(* Authoritative Pong server (server/src/server.ts) as a state machine.    *)
(*                                                                         *)
(* State: the activeRooms map (in insertion order), Node's table of        *)
(* active interval timers, the per-connection closure variables of         *)
(* io.on('connection'), and the messages / clearInterval calls issued by   *)
(* the handler that ran last.  Every handler runs to completion (Node's    *)
(* single-threaded event loop), so each handler is one action.             *)
(*                                                                         *)
(* Numbers: every constant and every initial coordinate of the program is  *)
(* an integer; the only fractional values arise from deltaY * 0.30 and     *)
(* from Math.random() in resetBall.  The model keeps coordinates on the    *)
(* one-pixel grid: deltaY * 0.30 is truncated toward zero and the random   *)
(* serve speed is drawn from the integers of its range [1, 4).             *)
(***************************************************************************)
EXTENDS Integers, Sequences, FiniteSets, TLC

\* ----------------------------------------------------------------- bounds
\* paddleMove inputs applied while playing, over one behaviour.
MaxMoves == 1
\* Firings of one interval timer (one Playing period) that a behaviour follows.
MaxTicks == 5
\* paddleMove inputs applied in one behaviour of SpecArena.
MaxArenaMoves == 2

\* -------------------------------------------------------- game constants
GAME_AREA_WIDTH == 800
GAME_AREA_HEIGHT == 600
PADDLE_WIDTH == 10
PADDLE_HEIGHT == 100
PADDLE_OFFSET_X == 50
BALL_RADIUS == 10
INITIAL_BALL_SPEED == 5
PADDLE_SPEED == 15
WINNING_SCORE == 5
MAX_BALL_SPEED_Y == 7
\* PADDLE_BOUNCE_ANGLE_FACTOR = 0.30, in hundredths.
PADDLE_BOUNCE_ANGLE_FACTOR_PCT == 30

\* Connection ids.  socket.io gives every connection a fresh opaque id; the
\* model hands out the smallest id no open connection carries.  Three open
\* connections are what a full room plus a waiting newcomer takes.
Sockets == {1, 2, 3}

VARIABLES
    activeRooms,   \* Map<string, GameRoom>: sequence of rooms, insertion order
    timers,        \* active setInterval handles: id -> [room, firings, hits of last firing]
    conn,          \* per socket: connected, playerRoomId, playerNumber
    out,           \* messages emitted by the last handler, in order
    cleared,       \* handles passed to clearInterval by the last handler
    hits,          \* paddles whose collision response ran in the last handler
    last,          \* the event the last handler served: [op, who, arg]
    moves          \* paddleMove inputs applied so far

vars == <<activeRooms, timers, conn, out, cleared, hits, last, moves>>

\* ---------------------------------------------------------------- helpers
Abs(n) == IF n < 0 THEN -n ELSE n
Sign(n) == IF n > 0 THEN 1 ELSE IF n < 0 THEN -1 ELSE 0
Max(a, b) == IF a > b THEN a ELSE b
Min(a, b) == IF a < b THEN a ELSE b
\* n * pct / 100 truncated toward zero (pixel grid).
MulPct(n, pct) == Sign(n) * ((Abs(n) * pct) \div 100)

\* An optional value is a sequence of length 0 or 1; a handle of 0 is undefined.
HasGameState(room) == room.gameState # <<>>
GS(room) == room.gameState[1]
StatusOf(room) == IF HasGameState(room) THEN GS(room).status ELSE "none"

\* Mutant: every lookup lands on the first room of the map.
RoomIndex_First(rooms, rid) == IF Len(rooms) = 0 THEN 0 ELSE 1

RoomIndex(rooms, rid) ==
    IF \E i \in 1..Len(rooms) : rooms[i].roomId = rid
    THEN CHOOSE i \in 1..Len(rooms) : rooms[i].roomId = rid
    ELSE 0
PlayerIds(room) == {room.players[k].id : k \in 1..Len(room.players)}

\* The world a handler threads through its calls.
World(rooms, tm) ==
    [activeRooms |-> rooms, timers |-> tm, out |-> <<>>, cleared |-> <<>>, hits |-> <<>>]
Emit(w, ev, to, data) ==
    [w EXCEPT !.out = Append(@, [ev |-> ev, to |-> to, data |-> data])]
SetRoom(w, i, room) == [w EXCEPT !.activeRooms[i] = room]

\* clearInterval(handle): the handle leaves the timer table (a no-op on a
\* handle that is not active); the call itself is logged.
clearInterval(w, h) ==
    [w EXCEPT !.timers = [t \in (DOMAIN @) \ {h} |-> @[t]],
              !.cleared = Append(@, h)]
\* setInterval returns a handle distinct from every handle still held.
FreshHandle(w) ==
    LET used == (DOMAIN w.timers) \cup
                {w.activeRooms[i].gameLoopIntervalId : i \in 1..Len(w.activeRooms)}
    IN CHOOSE h \in 1..(Cardinality(used) + 1) : h \notin used
\* Mutant: no timer is installed.
setInterval_Never(w, i) == w

setInterval(w, i) ==
    LET h == FreshHandle(w) IN
    [w EXCEPT !.timers = [t \in (DOMAIN @) \cup {h} |->
                             IF t = h THEN [room |-> w.activeRooms[i].roomId, fired |-> 0, hits |-> <<>>]
                             ELSE @[t]],
              !.activeRooms[i].gameLoopIntervalId = h]

\* ------------------------------------------------------------ arena model
\* Math.random() > 0.5 ? 1 : -1
RandomSigns == {1, -1}
\* Math.random() * INITIAL_BALL_SPEED * 0.6 + INITIAL_BALL_SPEED * 0.2, on the grid.
ResetSpeeds == MulPct(INITIAL_BALL_SPEED, 20) .. (MulPct(INITIAL_BALL_SPEED, 80) - 1)

initializeGameState(sx, sy) ==
    [player1Paddle |-> [x |-> PADDLE_OFFSET_X,
                        y |-> GAME_AREA_HEIGHT \div 2 - PADDLE_HEIGHT \div 2,
                        width |-> PADDLE_WIDTH, height |-> PADDLE_HEIGHT],
     player2Paddle |-> [x |-> GAME_AREA_WIDTH - PADDLE_OFFSET_X - PADDLE_WIDTH,
                        y |-> GAME_AREA_HEIGHT \div 2 - PADDLE_HEIGHT \div 2,
                        width |-> PADDLE_WIDTH, height |-> PADDLE_HEIGHT],
     ball |-> [x |-> GAME_AREA_WIDTH \div 2, y |-> GAME_AREA_HEIGHT \div 2,
               radius |-> BALL_RADIUS,
               speedX |-> sx * INITIAL_BALL_SPEED, speedY |-> sy * INITIAL_BALL_SPEED],
     score |-> [player1 |-> 0, player2 |-> 0],
     gameArea |-> [width |-> GAME_AREA_WIDTH, height |-> GAME_AREA_HEIGHT],
     status |-> "playing"]

resetBall(gs, lastScorer, speed, sign) ==
    [gs EXCEPT !.ball.x = GAME_AREA_WIDTH \div 2,
               !.ball.y = GAME_AREA_HEIGHT \div 2,
               !.ball.speedX = IF lastScorer = 1 THEN -INITIAL_BALL_SPEED
                               ELSE INITIAL_BALL_SPEED,
               !.ball.speedY = speed * sign]

\* ball.x += speedX; ball.y += speedY
Integrate(gs) ==
    [gs EXCEPT !.ball.x = @ + gs.ball.speedX, !.ball.y = @ + gs.ball.speedY]

Overlaps(ball, paddle) ==
    /\ ball.x - ball.radius < paddle.x + paddle.width
    /\ ball.x + ball.radius > paddle.x
    /\ ball.y - ball.radius < paddle.y + paddle.height
    /\ ball.y + ball.radius > paddle.y

\* Mutant: the bounce speed is not limited to MAX_BALL_SPEED_Y.
BounceSpeedY_Unclamped(ball, paddle) ==
    MulPct(ball.y - (paddle.y + paddle.height \div 2), PADDLE_BOUNCE_ANGLE_FACTOR_PCT)

BounceSpeedY(ball, paddle) ==
    LET deltaY == ball.y - (paddle.y + paddle.height \div 2)
        raw == MulPct(deltaY, PADDLE_BOUNCE_ANGLE_FACTOR_PCT)
    IN IF Abs(raw) > MAX_BALL_SPEED_Y THEN MAX_BALL_SPEED_Y * Sign(raw) ELSE raw

P1Hit(gs) == Overlaps(gs.ball, gs.player1Paddle) /\ gs.ball.speedX < 0

\* Mutant: the bounce is computed against the paddle where the game put it at
\* the start, not where the inputs have moved it.
P1PaddleCollision_StalePaddle(gs) ==
    IF P1Hit(gs)
    THEN [gs EXCEPT !.ball.speedX = -@,
                    !.ball.speedY = BounceSpeedY(gs.ball,
                                        [gs.player1Paddle EXCEPT
                                            !.y = GAME_AREA_HEIGHT \div 2 - PADDLE_HEIGHT \div 2]),
                    !.ball.x = gs.player1Paddle.x + gs.player1Paddle.width + gs.ball.radius]
    ELSE gs

\* Mutant: the ball is left where the integration put it.
P1PaddleCollision_NoReposition(gs) ==
    IF P1Hit(gs)
    THEN [gs EXCEPT !.ball.speedX = -@,
                    !.ball.speedY = BounceSpeedY(gs.ball, gs.player1Paddle)]
    ELSE gs

\* Mutant: the response leaves the direction of the ball as it was.
P1PaddleCollision_NoReflect(gs) ==
    IF P1Hit(gs)
    THEN [gs EXCEPT !.ball.speedY = BounceSpeedY(gs.ball, gs.player1Paddle),
                    !.ball.x = gs.player1Paddle.x + gs.player1Paddle.width + gs.ball.radius]
    ELSE gs

P1PaddleCollision(gs) ==
    IF P1Hit(gs)
    THEN [gs EXCEPT !.ball.speedX = -@,
                    !.ball.speedY = BounceSpeedY(gs.ball, gs.player1Paddle),
                    !.ball.x = gs.player1Paddle.x + gs.player1Paddle.width + gs.ball.radius]
    ELSE gs

\* Mutant: the seat-2 response does not look at the direction of the ball.
P2Hit_Ungated(gs) == Overlaps(gs.ball, gs.player2Paddle)

P2Hit(gs) == Overlaps(gs.ball, gs.player2Paddle) /\ gs.ball.speedX > 0
\* Mutant: every return off the seat-2 paddle is one pixel a tick faster.
P2PaddleCollision_SpeedsUp(gs) ==
    IF P2Hit(gs)
    THEN [gs EXCEPT !.ball.speedX = -(@ + 1),
                    !.ball.speedY = BounceSpeedY(gs.ball, gs.player2Paddle),
                    !.ball.x = gs.player2Paddle.x - gs.ball.radius]
    ELSE gs

P2PaddleCollision(gs) ==
    IF P2Hit(gs)
    THEN [gs EXCEPT !.ball.speedX = -@,
                    !.ball.speedY = BounceSpeedY(gs.ball, gs.player2Paddle),
                    !.ball.x = gs.player2Paddle.x - gs.ball.radius]
    ELSE gs

\* Mutant: the wall inverts the speed but does not put the ball back inside.
WallBouncing_NoClamp(gs) ==
    IF gs.ball.y - gs.ball.radius < 0 \/ gs.ball.y + gs.ball.radius > gs.gameArea.height
    THEN [gs EXCEPT !.ball.speedY = -@]
    ELSE gs

WallBouncing(gs) ==
    LET b == gs.ball
        top == b.y - b.radius < 0
        bottom == b.y + b.radius > gs.gameArea.height
        y1 == IF top THEN b.radius ELSE b.y
        y2 == IF y1 + b.radius > gs.gameArea.height
              THEN gs.gameArea.height - b.radius ELSE y1
    IN IF top \/ bottom
       THEN [gs EXCEPT !.ball.speedY = -@, !.ball.y = y2]
       ELSE gs

\* The scoring step, with the draws resetBall makes if it is called.
ScoringWith(gs, v, s) ==
    IF gs.ball.x + gs.ball.radius < 0
    THEN resetBall([gs EXCEPT !.score.player2 = @ + 1], 2, v, s)
    ELSE IF gs.ball.x - gs.ball.radius > gs.gameArea.width
    THEN resetBall([gs EXCEPT !.score.player1 = @ + 1], 1, v, s)
    ELSE gs

\* The paddles whose collision response runs in the tick that starts from gs.
Collisions(gs) ==
    (IF P1Hit(Integrate(gs)) THEN <<1>> ELSE <<>>) \o
    (IF P2Hit(P1PaddleCollision(Integrate(gs))) THEN <<2>> ELSE <<>>)

\* Lines 83-109 of updateGame: integration, paddle collisions, wall bounce.
MoveBall(gs) == WallBouncing(P2PaddleCollision(P1PaddleCollision(Integrate(gs))))

\* Mutant: a point is given as soon as the centre of the ball is past the goal
\* line.
Scoring_CentreLine(gs) ==
    {IF gs.ball.x < 0
     THEN resetBall([gs EXCEPT !.score.player2 = @ + 1], 2, v, s)
     ELSE IF gs.ball.x > gs.gameArea.width
     THEN resetBall([gs EXCEPT !.score.player1 = @ + 1], 1, v, s)
     ELSE gs : v \in ResetSpeeds, s \in RandomSigns}

\* Mutant: after a point the ball is served the other way.
Scoring_ServedTheOtherWay(gs) ==
    {LET g == ScoringWith(gs, v, s) IN
     IF g.score # gs.score THEN [g EXCEPT !.ball.speedX = -@] ELSE g :
        v \in ResetSpeeds, s \in RandomSigns}

\* The game states the scoring step can produce (resetBall draws at random).
Scoring(gs) == {ScoringWith(gs, v, s) : v \in ResetSpeeds, s \in RandomSigns}

\* Mutant: only seat 1's score ends the game.
GameEnded_SeatOneOnly(gs) == gs.score.player1 >= WINNING_SCORE

\* Mutant: the winning score has to be exceeded.
GameEnded_Strict(gs) ==
    gs.score.player1 > WINNING_SCORE \/ gs.score.player2 > WINNING_SCORE

GameEnded(gs) ==
    gs.score.player1 >= WINNING_SCORE \/ gs.score.player2 >= WINNING_SCORE

\* Mutant: the gameOver announcement always names seat 1 as the winner.
Conclude_WinnerSeat1(w, i, gs) ==
    LET room == w.activeRooms[i]
        to == PlayerIds(room)
    IN IF gs.status = "playing" /\ GameEnded(gs)
       THEN LET over == [gs EXCEPT !.status = "gameOver"]
                w1 == SetRoom(w, i, [room EXCEPT !.gameState = <<over>>])
                w2 == Emit(w1, "gameOver", to, [winner |-> 1, score |-> over.score])
                w3 == IF room.gameLoopIntervalId # 0
                      THEN [clearInterval(w2, room.gameLoopIntervalId)
                               EXCEPT !.activeRooms[i].gameLoopIntervalId = 0]
                      ELSE w2
            IN Emit(w3, "gameStateUpdate", to, over)
       ELSE Emit(SetRoom(w, i, [room EXCEPT !.gameState = <<gs>>]),
                 "gameStateUpdate", to, gs)

\* Mutant: the snapshot sent at the end of the tick is the one the tick started
\* from.
Conclude_StaleSnapshot(w, i, gs) ==
    LET room == w.activeRooms[i]
        to == PlayerIds(room)
    IN IF gs.status = "playing" /\ GameEnded(gs)
       THEN LET over == [gs EXCEPT !.status = "gameOver"]
                w1 == SetRoom(w, i, [room EXCEPT !.gameState = <<over>>])
                w2 == Emit(w1, "gameOver", to,
                           [winner |-> IF over.score.player1 >= WINNING_SCORE THEN 1 ELSE 2,
                            score |-> over.score])
                w3 == IF room.gameLoopIntervalId # 0
                      THEN [clearInterval(w2, room.gameLoopIntervalId)
                               EXCEPT !.activeRooms[i].gameLoopIntervalId = 0]
                      ELSE w2
            IN Emit(w3, "gameStateUpdate", to, over)
       ELSE Emit(SetRoom(w, i, [room EXCEPT !.gameState = <<gs>>]),
                 "gameStateUpdate", to, GS(room))

\* Mutant: the game-over block leaves the interval running.
Conclude_KeepsTimer(w, i, gs) ==
    LET room == w.activeRooms[i]
        to == PlayerIds(room)
    IN IF gs.status = "playing" /\ GameEnded(gs)
       THEN LET over == [gs EXCEPT !.status = "gameOver"]
                w1 == SetRoom(w, i, [room EXCEPT !.gameState = <<over>>])
                w2 == Emit(w1, "gameOver", to,
                           [winner |-> IF over.score.player1 >= WINNING_SCORE THEN 1 ELSE 2,
                            score |-> over.score])
            IN Emit(w2, "gameStateUpdate", to, over)
       ELSE Emit(SetRoom(w, i, [room EXCEPT !.gameState = <<gs>>]),
                 "gameStateUpdate", to, gs)

\* The "Game Over" block and the final broadcast of updateGame, for room i
\* whose game state after scoring is gs.
Conclude(w, i, gs) ==
    LET room == w.activeRooms[i]
        to == PlayerIds(room)
    IN IF gs.status = "playing" /\ GameEnded(gs)
       THEN LET over == [gs EXCEPT !.status = "gameOver"]
                w1 == SetRoom(w, i, [room EXCEPT !.gameState = <<over>>])
                w2 == Emit(w1, "gameOver", to,
                           [winner |-> IF over.score.player1 >= WINNING_SCORE THEN 1 ELSE 2,
                            score |-> over.score])
                w3 == IF room.gameLoopIntervalId # 0
                      THEN [clearInterval(w2, room.gameLoopIntervalId)
                               EXCEPT !.activeRooms[i].gameLoopIntervalId = 0]
                      ELSE w2
            IN Emit(w3, "gameStateUpdate", to, over)
       ELSE Emit(SetRoom(w, i, [room EXCEPT !.gameState = <<gs>>]),
                 "gameStateUpdate", to, gs)

\* Mutant: the callback only checks that there is a GameState.
updateGame_AnyStatus(w, i) ==
    LET room == w.activeRooms[i] IN
    IF ~HasGameState(room)
    THEN {w}
    ELSE {Conclude([w EXCEPT !.hits = @ \o Collisions(GS(room))], i, g) :
             g \in Scoring(MoveBall(GS(room)))}

\* updateGame(room): the worlds one run of the tick callback can leave.
updateGame(w, i) ==
    LET room == w.activeRooms[i] IN
    IF ~HasGameState(room) \/ GS(room).status \notin {"playing", "paused"}
    THEN {w}
    ELSE IF GS(room).status = "paused"
    THEN {Emit(w, "gameStateUpdate", PlayerIds(room), GS(room))}
    ELSE {Conclude([w EXCEPT !.hits = @ \o Collisions(GS(room))], i, g) :
             g \in Scoring(MoveBall(GS(room)))}

\* Mutant: seats are renumbered by position in the list.
SortPlayers_Renumber(ps) == [k \in 1..Len(ps) |-> [ps[k] EXCEPT !.playerNumber = k]]

\* Mutant: the list is left in the order of arrival.
SortPlayers_Unsorted(ps) == ps

\* room.players.sort((a, b) => a.playerNumber - b.playerNumber)
SortPlayers(ps) ==
    IF Len(ps) = 2 /\ ps[1].playerNumber > ps[2].playerNumber
    THEN <<ps[2], ps[1]>> ELSE ps

\* Mutant: a restart patches the previous GameState (new serve, same score and
\* paddles) instead of replacing it.
StartGameWith_Patched(w, i, sx, sy) ==
    LET room == w.activeRooms[i] IN
    IF Len(room.players) # 2 THEN w
    ELSE LET fresh == initializeGameState(sx, sy)
             gs == IF HasGameState(room) THEN [GS(room) EXCEPT !.ball = fresh.ball]
                   ELSE fresh
             started == [room EXCEPT !.players = SortPlayers(@),
                                     !.gameState = <<[gs EXCEPT !.status = "playing"]>>,
                                     !.playAgainRequests = {}]
             w1 == Emit(SetRoom(w, i, started), "gameStart", PlayerIds(room),
                        started.gameState[1])
             w2 == IF room.gameLoopIntervalId # 0
                   THEN clearInterval(w1, room.gameLoopIntervalId) ELSE w1
         IN setInterval(w2, i)

\* Mutant: the game starts in the status waiting.
StartGameWith_Waiting(w, i, sx, sy) ==
    LET room == w.activeRooms[i] IN
    IF Len(room.players) # 2 THEN w
    ELSE LET gs == initializeGameState(sx, sy)
             started == [room EXCEPT !.players = SortPlayers(@),
                                     !.gameState = <<[gs EXCEPT !.status = "waiting"]>>,
                                     !.playAgainRequests = {}]
             w1 == Emit(SetRoom(w, i, started), "gameStart", PlayerIds(room),
                        started.gameState[1])
             w2 == IF room.gameLoopIntervalId # 0
                   THEN clearInterval(w1, room.gameLoopIntervalId) ELSE w1
         IN setInterval(w2, i)

\* startGame(room) for room i, with the two random signs of the serve.
StartGameWith(w, i, sx, sy) ==
    LET room == w.activeRooms[i] IN
    IF Len(room.players) # 2 THEN w
    ELSE LET gs == initializeGameState(sx, sy)
             started == [room EXCEPT !.players = SortPlayers(@),
                                     !.gameState = <<[gs EXCEPT !.status = "playing"]>>,
                                     !.playAgainRequests = {}]
             w1 == Emit(SetRoom(w, i, started), "gameStart", PlayerIds(room),
                        started.gameState[1])
             w2 == IF room.gameLoopIntervalId # 0
                   THEN clearInterval(w1, room.gameLoopIntervalId) ELSE w1
         IN setInterval(w2, i)

\* startGame(room): the worlds it can leave (the serve is drawn at random).
startGame(w, i) ==
    IF Len(w.activeRooms[i].players) # 2 THEN {w}
    ELSE {StartGameWith(w, i, sx, sy) : sx \in RandomSigns, sy \in RandomSigns}

\* ------------------------------------------------------------- handlers
Undef == [connected |-> FALSE, playerRoomId |-> 0, playerNumber |-> 0]
GameAreaPayload == [width |-> GAME_AREA_WIDTH, height |-> GAME_AREA_HEIGHT]
Assignment(p, rid) ==
    [playerNumber |-> p.playerNumber, roomId |-> rid, gameArea |-> GameAreaPayload]

\* Mutant: any session that is not empty counts as half-filled.
HalfFilled_NonEmpty(rooms) == {i \in 1..Len(rooms) : Len(rooms[i].players) >= 1}

\* Mutant: a room that has already played is never offered to a newcomer.
HalfFilled_NeverPlayed(rooms) ==
    {i \in 1..Len(rooms) : Len(rooms[i].players) = 1 /\ ~HasGameState(rooms[i])}

\* for (const currentRoom of activeRooms.values()) if (players.length === 1) ... break
HalfFilled(rooms) == {i \in 1..Len(rooms) : Len(rooms[i].players) = 1}
RoomToJoin(rooms) ==
    IF HalfFilled(rooms) = {} THEN 0
    ELSE CHOOSE i \in HalfFilled(rooms) : \A j \in HalfFilled(rooms) : i <= j

\* createRoomId(): an id no room of the map carries.
createRoomId(rooms) ==
    CHOOSE r \in 1..(Len(rooms) + 1) : \A i \in 1..Len(rooms) : rooms[i].roomId # r

\* Mutant: the newcomer always gets seat 2.
NewPlayerNumber_Always2(existingPlayer) == 2

\* existingPlayer.playerNumber === 1 ? 2 : 1
NewPlayerNumber(existingPlayer) == IF existingPlayer.playerNumber = 1 THEN 2 ELSE 1

\* Mutant: the game is started before the seats are announced.
JoinRoom_StartFirst(w, i, s) ==
    LET room == w.activeRooms[i]
        existingPlayer == room.players[1]
        me == [id |-> s, playerNumber |-> NewPlayerNumber(existingPlayer)]
        players == SortPlayers(Append(room.players, me))
        w1 == SetRoom(w, i, [room EXCEPT !.players = players])
    IN {[world |-> Emit(Emit(w2, "playerAssignment", {players[1].id},
                             Assignment(players[1], room.roomId)),
                        "playerAssignment", {players[2].id},
                        Assignment(players[2], room.roomId)),
         me |-> me, roomId |-> room.roomId] : w2 \in startGame(w1, i)}

\* Mutant: the newcomer is seated but the game is not started.
JoinRoom_NoStart(w, i, s) ==
    LET room == w.activeRooms[i]
        existingPlayer == room.players[1]
        me == [id |-> s, playerNumber |-> NewPlayerNumber(existingPlayer)]
        players == SortPlayers(Append(room.players, me))
        w1 == SetRoom(w, i, [room EXCEPT !.players = players])
        w2 == Emit(w1, "playerAssignment", {players[1].id}, Assignment(players[1], room.roomId))
        w3 == Emit(w2, "playerAssignment", {players[2].id}, Assignment(players[2], room.roomId))
        w4 == Emit(w3, "message", PlayerIds(w3.activeRooms[i]), "Opponent found")
    IN {[world |-> w4, me |-> me, roomId |-> room.roomId]}

\* The "join existing room" branch of io.on('connection') for socket s.
JoinRoom(w, i, s) ==
    LET room == w.activeRooms[i]
        existingPlayer == room.players[1]
        me == [id |-> s, playerNumber |-> NewPlayerNumber(existingPlayer)]
        players == SortPlayers(Append(room.players, me))
        w1 == SetRoom(w, i, [room EXCEPT !.players = players])
        w2 == Emit(w1, "playerAssignment", {players[1].id}, Assignment(players[1], room.roomId))
        w3 == Emit(w2, "playerAssignment", {players[2].id}, Assignment(players[2], room.roomId))
        w4 == Emit(w3, "message", PlayerIds(w3.activeRooms[i]), "Opponent found")
    IN {[world |-> w5, me |-> me, roomId |-> room.roomId] : w5 \in startGame(w4, i)}

\* The "create new room" branch of io.on('connection') for socket s.
CreateRoom(w, s) ==
    LET newRoomId == createRoomId(w.activeRooms)
        me == [id |-> s, playerNumber |-> 1]
        newRoom == [roomId |-> newRoomId, players |-> <<me>>, gameState |-> <<>>,
                    gameLoopIntervalId |-> 0, playAgainRequests |-> {}]
        w1 == [w EXCEPT !.activeRooms = Append(@, newRoom)]
        w2 == Emit(w1, "playerAssignment", {s}, Assignment(me, newRoomId))
        w3 == Emit(w2, "waitingForOpponent", {s}, 0)
        w4 == Emit(w3, "message", {s}, "Welcome")
    IN {[world |-> w4, me |-> me, roomId |-> newRoomId]}

\* io.on('connection') for socket s: the outcomes it can leave.
Connection(w, s) ==
    IF RoomToJoin(w.activeRooms) # 0
    THEN JoinRoom(w, RoomToJoin(w.activeRooms), s)
    ELSE CreateRoom(w, s)

\* Mutant: one request is enough.
BothRequested_Any(room) == Cardinality(room.playAgainRequests) >= 1

\* room.playAgainRequests.size === 2
BothRequested(room) == Cardinality(room.playAgainRequests) = 2

\* Mutant: the request is accepted whatever the state of the game.
requestPlayAgain_Unguarded(w, s) ==
    LET i == RoomIndex(w.activeRooms, conn[s].playerRoomId) IN
    IF i = 0 \/ Len(w.activeRooms[i].players) # 2
    THEN {Emit(w, "message", {s}, "Cannot request play again now")}
    ELSE LET room == w.activeRooms[i]
             w1 == SetRoom(w, i, [room EXCEPT !.playAgainRequests = @ \cup {s}])
             others == PlayerIds(room) \ {s}
             w2 == IF others # {}
                   THEN Emit(w1, "message", {CHOOSE o \in others : TRUE}, "wants to play again")
                   ELSE w1
         IN IF BothRequested(w2.activeRooms[i])
            THEN startGame(w2, i)
            ELSE {Emit(w2, "message", {s}, "Request sent")}

\* socket.on('requestPlayAgain') of socket s.
requestPlayAgain(w, s) ==
    LET i == RoomIndex(w.activeRooms, conn[s].playerRoomId) IN
    IF i = 0 \/ Len(w.activeRooms[i].players) # 2 \/ ~HasGameState(w.activeRooms[i])
       \/ StatusOf(w.activeRooms[i]) # "gameOver"
    THEN {Emit(w, "message", {s}, "Cannot request play again now")}
    ELSE IF ~GameEnded(GS(w.activeRooms[i]))
    THEN {Emit(w, "message", {s}, "Game did not end by score")}
    ELSE LET room == w.activeRooms[i]
             w1 == SetRoom(w, i, [room EXCEPT !.playAgainRequests = @ \cup {s}])
             others == PlayerIds(room) \ {s}
             w2 == IF others # {}
                   THEN Emit(w1, "message", {CHOOSE o \in others : TRUE}, "wants to play again")
                   ELSE w1
         IN IF BothRequested(w2.activeRooms[i])
            THEN startGame(w2, i)
            ELSE {Emit(w2, "message", {s}, "Request sent")}

\* Mutant: the paddle is stopped at the bottom of the arena only.
MovePaddle_NoFloor(y, height, direction) ==
    LET y1 == IF direction = "up" THEN y - PADDLE_SPEED
              ELSE IF direction = "down" THEN y + PADDLE_SPEED ELSE y
    IN Min(y1, GAME_AREA_HEIGHT - height)

\* Mutant: the paddle moves by twice the step.
MovePaddle_DoubleStep(y, height, direction) ==
    LET y1 == IF direction = "up" THEN y - 2 * PADDLE_SPEED
              ELSE IF direction = "down" THEN y + 2 * PADDLE_SPEED ELSE y
    IN Max(0, Min(y1, GAME_AREA_HEIGHT - height))

\* The y of a paddle after one paddleMove in the given direction.
MovePaddle(y, height, direction) ==
    LET y1 == IF direction = "up" THEN y - PADDLE_SPEED
              ELSE IF direction = "down" THEN y + PADDLE_SPEED ELSE y
    IN Max(0, Min(y1, GAME_AREA_HEIGHT - height))

\* Mutant: the status of the game is not looked at.
PaddleMoveApplies_AnyStatus(rooms, s) ==
    LET i == RoomIndex(rooms, conn[s].playerRoomId) IN
    i # 0 /\ HasGameState(rooms[i])

PaddleMoveApplies(rooms, s) ==
    LET i == RoomIndex(rooms, conn[s].playerRoomId) IN
    i # 0 /\ HasGameState(rooms[i]) /\ GS(rooms[i]).status = "playing"

\* Mutant: the input moves both paddles.
paddleMove_BothPaddles(w, s, direction) ==
    IF ~PaddleMoveApplies(w.activeRooms, s) THEN w
    ELSE LET i == RoomIndex(w.activeRooms, conn[s].playerRoomId)
             gs == GS(w.activeRooms[i])
         IN [w EXCEPT !.activeRooms[i].gameState[1].player1Paddle.y =
                          MovePaddle(@, gs.player1Paddle.height, direction),
                      !.activeRooms[i].gameState[1].player2Paddle.y =
                          MovePaddle(@, gs.player2Paddle.height, direction)]

\* socket.on('paddleMove') of socket s.
paddleMove(w, s, direction) ==
    IF ~PaddleMoveApplies(w.activeRooms, s) THEN w
    ELSE LET i == RoomIndex(w.activeRooms, conn[s].playerRoomId)
             gs == GS(w.activeRooms[i])
         IN IF conn[s].playerNumber = 1
            THEN [w EXCEPT !.activeRooms[i].gameState[1].player1Paddle.y =
                               MovePaddle(@, gs.player1Paddle.height, direction)]
            ELSE [w EXCEPT !.activeRooms[i].gameState[1].player2Paddle.y =
                               MovePaddle(@, gs.player2Paddle.height, direction)]

\* Mutant: the emptied room stays in the map.
RemoveAt_Never(seq, i) == seq

RemoveAt(seq, i) == [k \in 1..(Len(seq) - 1) |-> IF k < i THEN seq[k] ELSE seq[k + 1]]

\* Mutant: the handle is dropped without clearInterval.
EndOnDisconnect_NoClear(w, i) ==
    [w EXCEPT !.activeRooms[i].gameLoopIntervalId = 0,
              !.activeRooms[i].gameState =
                  IF @ # <<>> THEN <<[@[1] EXCEPT !.status = "gameOver"]>> ELSE @]

\* Mutant: the interval is cleared but the room keeps its handle.
EndOnDisconnect_KeepHandle(w, i) ==
    [clearInterval(w, w.activeRooms[i].gameLoopIntervalId) EXCEPT
        !.activeRooms[i].gameState =
            IF @ # <<>> THEN <<[@[1] EXCEPT !.status = "gameOver"]>> ELSE @]

\* Mutant: the disconnect leaves the timer and the handle alone.
EndOnDisconnect_Idle(w, i) == w

\* The body of "if (room.gameLoopIntervalId && room.players.length < 2)".
EndOnDisconnect(w, i) ==
    [clearInterval(w, w.activeRooms[i].gameLoopIntervalId) EXCEPT
        !.activeRooms[i].gameLoopIntervalId = 0,
        !.activeRooms[i].gameState =
            IF @ # <<>> THEN <<[@[1] EXCEPT !.status = "gameOver"]>> ELSE @]

\* Mutant: the disconnect neither deletes the leaver's request nor clears the set.
disconnect_KeepRequests(w, s) ==
    LET i == RoomIndex(w.activeRooms, conn[s].playerRoomId) IN
    IF conn[s].playerRoomId = 0 \/ i = 0 THEN w
    ELSE
    LET room == w.activeRooms[i]
        players == SelectSeq(room.players, LAMBDA p : p.id # s)
        r1 == [room EXCEPT !.players = players]
        w1 == SetRoom(w, i, r1)
        w2 == IF r1.gameLoopIntervalId # 0 /\ Len(players) < 2
              THEN EndOnDisconnect(w1, i) ELSE w1
        r2 == w2.activeRooms[i]
    IN IF Len(players) = 1
       THEN LET remaining == {players[1].id}
                w3 == Emit(w2, "opponentDisconnected", remaining, 0)
                r3 == IF HasGameState(r2)
                      THEN [r2 EXCEPT !.gameState[1].status = "gameOver"] ELSE r2
                w4 == IF HasGameState(r2)
                      THEN Emit(Emit(SetRoom(w3, i, r3), "message", remaining,
                                     "Play again not possible"),
                                "gameStateUpdate", PlayerIds(r3), GS(r3))
                      ELSE w3
            IN Emit(w4, "waitingForOpponent", remaining, 0)
       ELSE IF Len(players) = 0
       THEN LET w3 == IF r2.gameLoopIntervalId # 0
                      THEN clearInterval(w2, r2.gameLoopIntervalId) ELSE w2
            IN [w3 EXCEPT !.activeRooms = RemoveAt(@, i)]
       ELSE w2

\* socket.on('disconnect') of socket s.
disconnect(w, s) ==
    LET i == RoomIndex(w.activeRooms, conn[s].playerRoomId) IN
    IF conn[s].playerRoomId = 0 \/ i = 0 THEN w
    ELSE
    LET room == w.activeRooms[i]
        requests == IF s \in PlayerIds(room) THEN room.playAgainRequests \ {s}
                    ELSE room.playAgainRequests
        players == SelectSeq(room.players, LAMBDA p : p.id # s)
        r1 == [room EXCEPT !.playAgainRequests = requests, !.players = players]
        w1 == SetRoom(w, i, r1)
        w2 == IF r1.gameLoopIntervalId # 0 /\ Len(players) < 2
              THEN EndOnDisconnect(w1, i) ELSE w1
        r2 == w2.activeRooms[i]
    IN IF Len(players) = 1
       THEN LET remaining == {players[1].id}
                w3 == Emit(w2, "opponentDisconnected", remaining, 0)
                r3 == IF HasGameState(r2)
                      THEN [r2 EXCEPT !.gameState[1].status = "gameOver"] ELSE r2
                w4 == IF HasGameState(r2)
                      THEN Emit(Emit(SetRoom(w3, i, r3), "message", remaining,
                                     "Play again not possible"),
                                "gameStateUpdate", PlayerIds(r3), GS(r3))
                      ELSE w3
                w5 == [w4 EXCEPT !.activeRooms[i].playAgainRequests = {}]
            IN Emit(w5, "waitingForOpponent", remaining, 0)
       ELSE IF Len(players) = 0
       THEN LET w3 == IF r2.gameLoopIntervalId # 0
                      THEN clearInterval(w2, r2.gameLoopIntervalId) ELSE w2
            IN [w3 EXCEPT !.activeRooms = RemoveAt(@, i)]
       ELSE w2

\* --------------------------------------------------------------- actions
Install(w) ==
    /\ activeRooms' = w.activeRooms
    /\ timers' = w.timers
    /\ out' = w.out
    /\ cleared' = w.cleared
    /\ hits' = w.hits

Start == World(activeRooms, timers)
Event(op, who, arg) == [op |-> op, who |-> who, arg |-> arg]

Connect(s) ==
    /\ ~conn[s].connected
    /\ \A t \in Sockets : t < s => conn[t].connected
    /\ \E res \in Connection(Start, s) :
          /\ Install(res.world)
          /\ last' = Event("connection", s, "")
          /\ conn' = [conn EXCEPT ![s] = [connected |-> TRUE,
                                          playerRoomId |-> res.roomId,
                                          playerNumber |-> res.me.playerNumber]]
    /\ UNCHANGED moves

RequestPlayAgain(s) ==
    /\ conn[s].connected
    /\ \E w \in requestPlayAgain(Start, s) : Install(w)
    /\ last' = Event("requestPlayAgain", s, "")
    /\ UNCHANGED <<conn, moves>>

PaddleMove(s, direction) ==
    /\ conn[s].connected
    /\ Install(paddleMove(Start, s, direction))
    /\ last' = Event("paddleMove", s, direction)
    /\ IF PaddleMoveApplies(activeRooms, s)
       THEN moves < MaxMoves /\ moves' = moves + 1
       ELSE UNCHANGED moves
    /\ UNCHANGED conn

Disconnect(s) ==
    /\ conn[s].connected
    /\ Install(disconnect(Start, s))
    /\ last' = Event("disconnect", s, "")
    /\ conn' = [conn EXCEPT ![s] = Undef]
    /\ UNCHANGED moves

\* One firing of the interval timer h: () => { updateGame(room); }
Fired(w, h) ==
    IF h \in DOMAIN w.timers
    THEN [w EXCEPT !.timers[h].fired = @ + 1, !.timers[h].hits = w.hits]
    ELSE w

Tick(h) ==
    /\ h \in DOMAIN timers
    /\ timers[h].fired < MaxTicks
    /\ LET i == RoomIndex(activeRooms, timers[h].room) IN
       IF i = 0 THEN Install(Fired(Start, h))
       ELSE \E w \in updateGame(Start, i) : Install(Fired(w, h))
    /\ last' = Event("tick", h, "")
    /\ UNCHANGED <<conn, moves>>

Init ==
    /\ activeRooms = <<>>
    /\ timers = <<>>
    /\ conn = [s \in Sockets |-> Undef]
    /\ out = <<>>
    /\ cleared = <<>>
    /\ hits = <<>>
    /\ last = Event("none", 0, "")
    /\ moves = 0

\* A game in progress late in a match: the game state n ticks after startGame
\* when no paddle was moved and every resetBall drew speed v and sign s.
RECURSIVE TicksFrom(_, _, _, _)
TicksFrom(gs, n, v, s) ==
    IF gs.status # "playing" \/ n = 0 THEN gs
    ELSE IF n = 1 THEN ScoringWith(MoveBall(gs), v, s)
    ELSE TicksFrom(TicksFrom(gs, n \div 2, v, s), n - n \div 2, v, s)

\* Untouched paddles miss every serve, so a point falls every 83 ticks: after
\* 660 ticks the score is 4-3 or 3-4, after 743 ticks 4-4, and the ball is four
\* ticks from the goal line.
LateTicks == {8 * 83 - 4, 9 * 83 - 4}

InitEndgame ==
    \E sx \in RandomSigns, sy \in RandomSigns, s \in RandomSigns, n \in LateTicks :
        LET gs == TicksFrom(initializeGameState(sx, sy), n, 1, s) IN
        /\ activeRooms = <<[roomId |-> 1,
                            players |-> <<[id |-> 1, playerNumber |-> 1],
                                          [id |-> 2, playerNumber |-> 2]>>,
                            gameState |-> <<gs>>,
                            gameLoopIntervalId |-> 1,
                            playAgainRequests |-> {}]>>
        /\ timers = [h \in {1} |-> [room |-> 1, fired |-> 0, hits |-> <<>>]]
        /\ conn = [c \in Sockets |->
                     IF c \in {1, 2}
                     THEN [connected |-> TRUE, playerRoomId |-> 1, playerNumber |-> c]
                     ELSE Undef]
        /\ out = <<>>
        /\ cleared = <<>>
        /\ hits = <<>>
        /\ last = Event("none", 0, "")
        /\ moves = 0

\* One game in progress, its ball and paddles drawn from positions around the
\* paddles, the walls and the limits of the paddles' travel.
ArenaP1Ys == {0, 10, 250}
ArenaP2Ys == {250, 490, 500}
ArenaBallXs == {58, 65, 735, 745}
ArenaBallYs == {15, 270, 300, 585}
ArenaSpeedYs == {-7, 0, 5}

ArenaGame(y1, y2, bx, by, sx, vy) ==
    [initializeGameState(sx, 1) EXCEPT !.player1Paddle.y = y1, !.player2Paddle.y = y2,
                                       !.ball.x = bx, !.ball.y = by, !.ball.speedY = vy]

InitArena ==
    \E y1 \in ArenaP1Ys, y2 \in ArenaP2Ys, bx \in ArenaBallXs, by \in ArenaBallYs,
       sx \in RandomSigns, vy \in ArenaSpeedYs :
        /\ activeRooms = <<[roomId |-> 1,
                            players |-> <<[id |-> 1, playerNumber |-> 1],
                                          [id |-> 2, playerNumber |-> 2]>>,
                            gameState |-> <<ArenaGame(y1, y2, bx, by, sx, vy)>>,
                            gameLoopIntervalId |-> 1,
                            playAgainRequests |-> {}]>>
        /\ timers = [h \in {1} |-> [room |-> 1, fired |-> 0, hits |-> <<>>]]
        /\ conn = [c \in Sockets |->
                     IF c \in {1, 2}
                     THEN [connected |-> TRUE, playerRoomId |-> 1, playerNumber |-> c]
                     ELSE Undef]
        /\ out = <<>>
        /\ cleared = <<>>
        /\ hits = <<>>
        /\ last = Event("none", 0, "")
        /\ moves = 0

\* paddleMove under the budget of SpecArena.
ArenaPaddleMove(s, direction) ==
    /\ conn[s].connected
    /\ PaddleMoveApplies(activeRooms, s)
    /\ moves < MaxArenaMoves
    /\ moves' = moves + 1
    /\ Install(paddleMove(Start, s, direction))
    /\ last' = Event("paddleMove", s, direction)
    /\ UNCHANGED conn

NextArena ==
    \/ \E h \in DOMAIN timers : Tick(h)
    \/ \E s \in Sockets, d \in {"up", "down"} : ArenaPaddleMove(s, d)

Next ==
    \/ \E s \in Sockets : Connect(s)
    \/ \E s \in Sockets : RequestPlayAgain(s)
    \/ \E s \in Sockets, d \in {"up", "down"} : PaddleMove(s, d)
    \/ \E s \in Sockets : Disconnect(s)
    \/ \E h \in DOMAIN timers : Tick(h)

Spec == Init /\ [][Next]_vars

SpecEndgame == InitEndgame /\ [][Next]_vars

SpecArena == InitArena /\ [][NextArena]_vars

\* updateGame(room) run on a room that has no GameState or whose status is not
\* playing.  startGame's callback is the only caller and its timer is cleared
\* by every statement that ends a Playing period, so no timer of a behaviour
\* of Spec makes this call; this action makes it, to exercise the guard at the
\* head of updateGame.
LateCallback(i) ==
    /\ i \in 1..Len(activeRooms)
    /\ StatusOf(activeRooms[i]) # "playing"
    /\ \E w \in updateGame(Start, i) : Install(w)
    /\ last' = Event("updateGame", activeRooms[i].roomId, "")
    /\ UNCHANGED <<conn, moves>>

NextCallback ==
    \/ Next
    \/ \E i \in 1..Len(activeRooms) : LateCallback(i)

SpecCallback == Init /\ [][NextCallback]_vars

\* ---------------------------------------------------------------- claims
RoomIds(rooms) == {rooms[i].roomId : i \in 1..Len(rooms)}
RoomOf(rooms, rid) == rooms[RoomIndex(rooms, rid)]
Events(o) == {o[k].ev : k \in 1..Len(o)}
Count(seq, x) == Cardinality({k \in 1..Len(seq) : seq[k] = x})
ScoreReached(gs) ==
    gs.score.player1 >= WINNING_SCORE \/ gs.score.player2 >= WINNING_SCORE

\* C1: in every reachable state no two active interval timers tick the same
\* session: each session has 0 or 1 active tick driver.
C1_AtMostOneDriver ==
    \A h1 \in DOMAIN timers, h2 \in DOMAIN timers :
        timers[h1].room = timers[h2].room => h1 = h2

\* C1 witness: a session restarted by a rematch is ticked by exactly one timer.
C1_Witness ==
    /\ last.op = "requestPlayAgain"
    /\ "gameStart" \in Events(out)
    /\ \E i \in 1..Len(activeRooms) :
          /\ StatusOf(activeRooms[i]) = "playing"
          /\ Cardinality({h \in DOMAIN timers :
                             timers[h].room = activeRooms[i].roomId}) = 1

\* A session that is Playing before a step and is not Playing (or is gone)
\* after it.
LeavesPlaying(rid) ==
    /\ StatusOf(RoomOf(activeRooms, rid)) = "playing"
    /\ \/ rid \notin RoomIds(activeRooms')
       \/ StatusOf(RoomOf(activeRooms', rid)) # "playing"

\* C2: every step that takes a session out of Playing passes that session's
\* timer handle to clearInterval exactly once and leaves it inactive, and no
\* step ever passes clearInterval a handle that is not active at that moment
\* (no second cancellation, also when the session later empties or restarts).
C2_CancelledExactlyOnce ==
    [][/\ \A rid \in RoomIds(activeRooms) :
             LeavesPlaying(rid) =>
                 /\ Count(cleared', RoomOf(activeRooms, rid).gameLoopIntervalId) = 1
                 /\ RoomOf(activeRooms, rid).gameLoopIntervalId \notin DOMAIN timers'
       /\ \A k \in 1..Len(cleared') :
             /\ cleared'[k] \in DOMAIN timers
             /\ Count(cleared', cleared'[k]) = 1]_vars

\* C2 witness: the tick in which a score reached 5 cleared the session's timer
\* once; the session is GameOver, holds no handle and no timer is active.
C2_Witness ==
    /\ last.op = "tick"
    /\ Len(cleared) = 1
    /\ timers = <<>>
    /\ \E i \in 1..Len(activeRooms) :
          /\ StatusOf(activeRooms[i]) = "gameOver"
          /\ ScoreReached(GS(activeRooms[i]))
          /\ activeRooms[i].gameLoopIntervalId = 0

StatusAt(rooms, rid) ==
    IF rid \in RoomIds(rooms) THEN StatusOf(RoomOf(rooms, rid)) ELSE "none"

BecomesGameOver(rid) ==
    StatusAt(activeRooms, rid) # "gameOver" /\ StatusAt(activeRooms', rid) = "gameOver"

\* The step is a tick of Playing session rid that leaves a score at 5 or more.
ScoreCause(rid) ==
    /\ last'.op = "tick"
    /\ last'.who \in DOMAIN timers
    /\ timers[last'.who].room = rid
    /\ StatusAt(activeRooms, rid) = "playing"
    /\ rid \in RoomIds(activeRooms')
    /\ ScoreReached(GS(RoomOf(activeRooms', rid)))

\* The step is the disconnect of a participant of Playing session rid.
DisconnectCause(rid) ==
    /\ last'.op = "disconnect"
    /\ conn[last'.who].connected
    /\ conn[last'.who].playerRoomId = rid
    /\ StatusAt(activeRooms, rid) = "playing"

BackToPlaying(rid) ==
    StatusAt(activeRooms, rid) = "gameOver" /\ StatusAt(activeRooms', rid) = "playing"

\* The step is a requestPlayAgain in session rid, GameOver by score, after
\* which both seated participants have requested.
ValidRematch(rid) ==
    /\ last'.op = "requestPlayAgain"
    /\ conn[last'.who].connected
    /\ conn[last'.who].playerRoomId = rid
    /\ LET room == RoomOf(activeRooms, rid) IN
          /\ Len(room.players) = 2
          /\ StatusOf(room) = "gameOver"
          /\ ScoreReached(GS(room))
          /\ room.playAgainRequests \cup {last'.who} = PlayerIds(room)

\* The step admits a newcomer into the free seat of session rid.
NewOpponentAdmitted(rid) ==
    /\ last'.op = "connection"
    /\ ~conn[last'.who].connected
    /\ Len(RoomOf(activeRooms, rid).players) = 1
    /\ conn'[last'.who].playerRoomId = rid

GameOverIff ==
    \A rid \in RoomIds(activeRooms) \cup RoomIds(activeRooms') :
        BecomesGameOver(rid) <=> (ScoreCause(rid) \/ DisconnectCause(rid))

\* C3 as stated: a session's status becomes GameOver exactly in the steps in
\* which a score reaches 5 or a participant disconnects, and a GameOver session
\* is Playing again only through a valid rematch.
C3_Original ==
    [][/\ GameOverIff
       /\ \A rid \in RoomIds(activeRooms) : BackToPlaying(rid) => ValidRematch(rid)]_vars

\* C3 as amended: a session's status becomes GameOver exactly in the steps in
\* which a score reaches 5 or a participant disconnects, and a GameOver session
\* is Playing again only through a valid rematch or through the admission of a
\* new participant into its free seat.
C3_GameOverIffAndReverts ==
    [][/\ GameOverIff
       /\ \A rid \in RoomIds(activeRooms) :
             BackToPlaying(rid) => (ValidRematch(rid) \/ NewOpponentAdmitted(rid))]_vars

\* C3 witness: a newcomer was admitted at Seat1 beside a Seat2 survivor, whose
\* session a disconnect had left GameOver, and the session is Playing.
C3_Witness ==
    /\ last.op = "connection"
    /\ conn[last.who].playerNumber = 1
    /\ LET room == RoomOf(activeRooms, conn[last.who].playerRoomId) IN
          /\ Len(room.players) = 2
          /\ StatusOf(room) = "playing"
          /\ room.gameLoopIntervalId \in DOMAIN timers

Restarted == "gameStart" \in Events(out')

\* C4: a requestPlayAgain step restarts the game iff the session is GameOver
\* by score with two seated participants and, with this request, both have
\* requested; a request that does not restart leaves the GameState, the room's
\* timer handle and the timer table as they were; and a game starts in no
\* step other than a requestPlayAgain or a connection.
C4_RematchIffBoth ==
    [][/\ \A s \in Sockets :
             (last'.op = "requestPlayAgain" /\ last'.who = s /\ conn[s].connected) =>
                 LET rid == conn[s].playerRoomId
                     room == RoomOf(activeRooms, rid)
                 IN /\ Restarted <=>
                          /\ Len(room.players) = 2
                          /\ StatusOf(room) = "gameOver"
                          /\ ScoreReached(GS(room))
                          /\ room.playAgainRequests \cup {s} = PlayerIds(room)
                    /\ ~Restarted =>
                          /\ RoomOf(activeRooms', rid).gameState = room.gameState
                          /\ RoomOf(activeRooms', rid).gameLoopIntervalId =
                                 room.gameLoopIntervalId
                          /\ timers' = timers
                          /\ cleared' = <<>>
       /\ Restarted => last'.op \in {"requestPlayAgain", "connection"}]_vars

\* C4 witness: the second request restarted the game: scores are 0-0, the
\* request set is empty and a new timer ticks the session.
C4_Witness ==
    /\ last.op = "requestPlayAgain"
    /\ "gameStart" \in Events(out)
    /\ LET room == RoomOf(activeRooms, conn[last.who].playerRoomId) IN
          /\ GS(room).score = [player1 |-> 0, player2 |-> 0]
          /\ room.playAgainRequests = {}
          /\ room.gameLoopIntervalId \in DOMAIN timers

GameStates == {GS(activeRooms[i]) : i \in {j \in 1..Len(activeRooms) : HasGameState(activeRooms[j])}}

\* C5: in every reachable state both paddles of every game satisfy
\* 0 <= y <= GAME_AREA_HEIGHT - PADDLE_HEIGHT (0 <= y <= 500).
C5_PaddleInArena ==
    \A gs \in GameStates :
        /\ 0 <= gs.player1Paddle.y
        /\ gs.player1Paddle.y <= GAME_AREA_HEIGHT - PADDLE_HEIGHT
        /\ 0 <= gs.player2Paddle.y
        /\ gs.player2Paddle.y <= GAME_AREA_HEIGHT - PADDLE_HEIGHT

\* C5 witness: after two paddleMove inputs, the last one "down" by seat 2, the
\* seat-1 paddle rests at the top limit and the seat-2 paddle at the bottom one
\* (each was at most 10 px away, so each 15 px step was cut short).
C5_Witness ==
    /\ moves = 2
    /\ last.op = "paddleMove" /\ last.who = 2 /\ last.arg = "down"
    /\ \E gs \in GameStates :
          /\ gs.player1Paddle.y = 0
          /\ gs.player2Paddle.y = GAME_AREA_HEIGHT - PADDLE_HEIGHT

\* C6: after a tick in which a paddle collision response ran, the ball's
\* vertical speed satisfies |speedY| <= MAX_BALL_SPEED_Y (7).
C6_BounceSpeedBounded ==
    (last.op = "tick" /\ hits # <<>>) =>
        \A gs \in GameStates : Abs(gs.ball.speedY) <= MAX_BALL_SPEED_Y

\* C6 witness: the seat-2 collision response ran in the last tick and left the
\* ball at the speed limit.
C6_Witness ==
    /\ last.op = "tick"
    /\ hits = <<2>>
    /\ \E gs \in GameStates : Abs(gs.ball.speedY) = MAX_BALL_SPEED_Y /\ gs.ball.speedX < 0

\* The seats of a session as a set of <<participant, seat>> pairs.
Seating(room) ==
    {<<room.players[k].id, room.players[k].playerNumber>> : k \in 1..Len(room.players)}
\* A step that admits participant s.
Admits(s) == last'.op = "connection" /\ last'.who = s /\ ~conn[s].connected /\ conn'[s].connected

SeatedBeside(s, i) ==
    LET occupant == activeRooms[i].players[1]
        seat == conn'[s].playerNumber
    IN /\ activeRooms'[i].roomId = activeRooms[i].roomId
       /\ conn'[s].playerRoomId = activeRooms[i].roomId
       /\ occupant.playerNumber \in {1, 2}
       /\ occupant.playerNumber = 1 => seat = 2
       /\ occupant.playerNumber = 2 => seat = 1
       /\ Seating(activeRooms'[i]) = {<<occupant.id, occupant.playerNumber>>, <<s, seat>>}

SeatedAlone(s) ==
    LET created == activeRooms'[Len(activeRooms')] IN
    /\ Len(activeRooms') = Len(activeRooms) + 1
    /\ SubSeq(activeRooms', 1, Len(activeRooms)) = activeRooms
    /\ created.roomId \notin RoomIds(activeRooms)
    /\ Seating(created) = {<<s, 1>>}
    /\ conn'[s].playerRoomId = created.roomId
    /\ conn'[s].playerNumber = 1

\* C7: a connection that finds some session with exactly one seated participant
\* seats the newcomer in such a session at the complementary seat (2 beside a
\* seat-1 occupant, 1 beside a seat-2 occupant) and creates no session;
\* otherwise it adds one new session to the registry with the newcomer at seat 1.
C7_AdmitSeatsOrCreates ==
    [][\A s \in Sockets : Admits(s) =>
          IF \E i \in 1..Len(activeRooms) : Len(activeRooms[i].players) = 1
          THEN /\ RoomIds(activeRooms') = RoomIds(activeRooms)
               /\ Len(activeRooms') = Len(activeRooms)
               /\ \E i \in 1..Len(activeRooms) :
                     Len(activeRooms[i].players) = 1 /\ SeatedBeside(s, i)
          ELSE SeatedAlone(s)]_vars

\* C7 witness: the last connection seated the newcomer at seat 1 beside a
\* seat-2 occupant while another session, created earlier, is still waiting.
C7_Witness ==
    /\ last.op = "connection"
    /\ conn[last.who].playerNumber = 1
    /\ Len(activeRooms) = 2
    /\ Len(RoomOf(activeRooms, conn[last.who].playerRoomId).players) = 2
    /\ \E i \in 1..Len(activeRooms) : Seating(activeRooms[i]) = {<<3, 1>>}

\* C8: in every reachable state no session holds more than two participants.
C8_AtMostTwoSeated ==
    \A i \in 1..Len(activeRooms) : Len(activeRooms[i].players) <= 2

\* C8 witness: three participants are connected; the third admit found the
\* first session full and opened a session of its own.
C8_Witness ==
    /\ \A s \in Sockets : conn[s].connected
    /\ last.op = "connection" /\ last.who = 3
    /\ Len(activeRooms) = 2
    /\ Len(activeRooms[1].players) = 2
    /\ Seating(activeRooms[2]) = {<<3, 1>>}

\* The seat the registry records for participant s (0 when s is seated nowhere).
SeatOf(rooms, s) ==
    LET seats == UNION {{p[2] : p \in {q \in Seating(rooms[i]) : q[1] = s}} : i \in 1..Len(rooms)}
    IN IF seats = {} THEN 0 ELSE CHOOSE n \in seats : TRUE

\* C9: no step changes the seat number of a participant that is connected
\* before and after it, neither in the session's player list nor in the
\* participant's own connection record.
C9_SeatStable ==
    [][\A s \in Sockets : (conn[s].connected /\ conn'[s].connected) =>
          /\ conn'[s].playerNumber = conn[s].playerNumber
          /\ SeatOf(activeRooms', s) = SeatOf(activeRooms, s)
          /\ SeatOf(activeRooms', s) = conn'[s].playerNumber]_vars

\* C9 witness: a new opponent has just been admitted at seat 1 into the
\* session in which participant 2 keeps seat 2, and the game restarted.
C9_Witness ==
    /\ last.op = "connection" /\ last.who = 1
    /\ conn[2].connected /\ conn[2].playerNumber = 2
    /\ conn[2].playerRoomId = conn[1].playerRoomId
    /\ SeatOf(activeRooms, 2) = 2 /\ SeatOf(activeRooms, 1) = 1
    /\ "gameStart" \in Events(out)

FreshGames ==
    {[initializeGameState(sx, sy) EXCEPT !.status = "playing"] :
        sx \in RandomSigns, sy \in RandomSigns}
SecondSeatFilled(i) ==
    /\ Len(activeRooms[i].players) = 1
    /\ i <= Len(activeRooms')
    /\ activeRooms'[i].roomId = activeRooms[i].roomId
    /\ Len(activeRooms'[i].players) = 2
StartedAtOnce(i) ==
    LET room == activeRooms'[i] IN
    /\ HasGameState(room)
    /\ GS(room) \in FreshGames
    /\ room.gameLoopIntervalId \in (DOMAIN timers') \ (DOMAIN timers)
    /\ timers'[room.gameLoopIntervalId].room = room.roomId
    /\ \E k \in 1..Len(out') :
          out'[k] = [ev |-> "gameStart", to |-> PlayerIds(room), data |-> GS(room)]
NeverSeatedWithoutGame ==
    \A i \in 1..Len(activeRooms) :
        Len(activeRooms[i].players) = 2 => HasGameState(activeRooms[i])

\* C10: the step that fills a session's second seat leaves, in the same step,
\* a fresh GameState with status playing, a newly installed timer ticking that
\* session, and a gameStart carrying that state to both participants; and in
\* no reachable state has a session two participants and no GameState.
C10_StartsWhenSecondSeatFills ==
    /\ []NeverSeatedWithoutGame
    /\ [][\A i \in 1..Len(activeRooms) : SecondSeatFilled(i) => StartedAtOnce(i)]_vars

\* C10 witness: the last connection filled a second seat; the session is
\* playing at 0-0, its timer has not fired yet, and gameStart went to both.
C10_Witness ==
    /\ last.op = "connection"
    /\ LET room == RoomOf(activeRooms, conn[last.who].playerRoomId) IN
          /\ Len(room.players) = 2
          /\ GS(room) \in FreshGames
          /\ room.gameLoopIntervalId \in DOMAIN timers
          /\ timers[room.gameLoopIntervalId].fired = 0
          /\ \E k \in 1..Len(out) : out[k].ev = "gameStart" /\ out[k].to = PlayerIds(room)

\* The step starts or restarts session rid: its second seat is filled, or the
\* second rematch request arrives.
StartsOrRestarts(rid) ==
    /\ rid \in RoomIds(activeRooms')
    /\ \/ NewOpponentAdmitted(rid)
       \/ ValidRematch(rid)

IsFresh(room) ==
    /\ HasGameState(room)
    /\ GS(room).score.player1 = 0 /\ GS(room).score.player2 = 0
    /\ GS(room).player1Paddle.y = 250 /\ GS(room).player2Paddle.y = 250
    /\ GS(room).ball.x = 400 /\ GS(room).ball.y = 300
    /\ Abs(GS(room).ball.speedX) = 5 /\ Abs(GS(room).ball.speedY) = 5
    /\ GS(room).status = "playing"
    /\ room.playAgainRequests = {}

\* C11: right after every step that starts or restarts a session (second seat
\* filled, or rematch) the GameState is fresh whatever it was before: scores
\* 0-0, both paddles at y = 250, ball at (400, 300) with |speedX| = |speedY| = 5,
\* status playing, and the rematch-request set empty.
C11_FreshOnEveryStart ==
    [][\A rid \in RoomIds(activeRooms) :
          StartsOrRestarts(rid) => IsFresh(RoomOf(activeRooms', rid))]_vars

\* C11 witness: a rematch has just restarted a game that had ended by score
\* and in which a paddle had been moved; the GameState is fresh again.
C11_Witness ==
    /\ last.op = "requestPlayAgain"
    /\ moves = 1
    /\ cleared = <<>>
    /\ \E i \in 1..Len(activeRooms) :
          /\ IsFresh(activeRooms[i])
          /\ PlayerIds(activeRooms[i]) = {1, 2}
          /\ \E k \in 1..Len(out) : out[k].ev = "gameStart" /\ out[k].data = GS(activeRooms[i])

\* The seat whose score is at the winning threshold.
WinnerOf(gs) == IF gs.score.player1 = WINNING_SCORE THEN 1 ELSE 2
EventsOf(o, ev) == {k \in 1..Len(o) : o[k].ev = ev}

\* What the tick in which a score of session rid reaches 5 leaves behind.
EndedByScore(rid) ==
    LET before == RoomOf(activeRooms, rid)
        after == RoomOf(activeRooms', rid)
        final == GS(after)
    IN /\ final.status = "gameOver"
       /\ {final.score.player1, final.score.player2} \cap {WINNING_SCORE} # {}
       /\ before.gameLoopIntervalId \notin DOMAIN timers'
       /\ after.gameLoopIntervalId = 0
       /\ \A h \in DOMAIN timers' : timers'[h].room # rid
       /\ Cardinality(EventsOf(out', "gameOver")) = 1
       /\ \A k \in EventsOf(out', "gameOver") :
             /\ out'[k].to = PlayerIds(after)
             /\ out'[k].data = [winner |-> WinnerOf(final), score |-> final.score]
             /\ \E m \in EventsOf(out', "gameStateUpdate") :
                   m > k /\ out'[m].data = final /\ out'[m].to = PlayerIds(after)

\* C12: the tick in which a score reaches 5 sets status gameOver, cancels the
\* session's timer, emits exactly one gameOver whose winner is the seat whose
\* score is 5 and whose payload is the final score, and emits a final
\* gameStateUpdate; afterwards no timer ticks that session and no tick step
\* changes a GameState whose status is gameOver.
C12_ScoreEndsGameInOneTick ==
    [][/\ \A rid \in RoomIds(activeRooms) : ScoreCause(rid) => EndedByScore(rid)
       /\ \A rid \in RoomIds(activeRooms) :
             StatusAt(activeRooms, rid) = "gameOver" =>
                 /\ \A h \in DOMAIN timers : timers[h].room # rid
                 /\ last'.op = "tick" =>
                       /\ rid \in RoomIds(activeRooms')
                       /\ RoomOf(activeRooms', rid).gameState =
                              RoomOf(activeRooms, rid).gameState]_vars

\* C12 witness: seat 2 scored at 4-4; the tick announced winner 2 with
\* score {4, 5} and cancelled the timer.
C12_Witness ==
    /\ last.op = "tick"
    /\ \E k \in 1..Len(out) :
          /\ out[k].ev = "gameOver"
          /\ out[k].data = [winner |-> 2, score |-> [player1 |-> 4, player2 |-> 5]]
    /\ cleared = <<1>>
    /\ StatusOf(activeRooms[1]) = "gameOver"

\* The participant left in session rid when last'.who disconnects from it.
Survivors(rid) == PlayerIds(RoomOf(activeRooms, rid)) \ {last'.who}
\* The sessions other than rid that have exactly one seated participant.
OthersWaiting(rid) ==
    {j \in 1..Len(activeRooms) :
        activeRooms[j].roomId # rid /\ Len(activeRooms[j].players) = 1}

\* C13 as stated: when a participant disconnects during Playing, the remaining
\* participant ends up seated as the admit rule seats a newcomer: beside the
\* occupant of a session that has exactly one seated participant if there is
\* one, otherwise alone in a session where it waits.
C13_SurvivorReadmitted ==
    [][\A rid \in RoomIds(activeRooms) :
          DisconnectCause(rid) =>
              \A r \in Survivors(rid) :
                  IF OthersWaiting(rid) # {}
                  THEN \E j \in 1..Len(activeRooms') :
                          /\ r \in PlayerIds(activeRooms'[j])
                          /\ Len(activeRooms'[j].players) = 2
                  ELSE \E j \in 1..Len(activeRooms') :
                          PlayerIds(activeRooms'[j]) = {r}]_vars

\* C13 witness: after a disconnect during Playing the survivor was told to wait
\* in its own session while another participant waits alone in a second one.
C13_Witness ==
    /\ last.op = "disconnect"
    /\ Len(activeRooms) = 2
    /\ Len(activeRooms[1].players) = 1 /\ StatusOf(activeRooms[1]) = "gameOver"
    /\ Len(activeRooms[2].players) = 1 /\ StatusOf(activeRooms[2]) = "none"
    /\ cleared # <<>>
    /\ \E k \in 1..Len(out) :
          out[k].ev = "waitingForOpponent" /\ out[k].to = PlayerIds(activeRooms[1])

\* C14: the disconnect of a participant during Playing, in that same step,
\* cancels the session's timer, sets status gameOver and leaves the
\* rematch-request set empty; and a requestPlayAgain of a participant whose
\* session is gameOver without a score at 5 never restarts the game.
C14_DisconnectEndsWithoutRematch ==
    [][/\ \A rid \in RoomIds(activeRooms) :
             (DisconnectCause(rid) /\ rid \in RoomIds(activeRooms')) =>
                 LET before == RoomOf(activeRooms, rid)
                     after == RoomOf(activeRooms', rid)
                 IN /\ StatusOf(after) = "gameOver"
                    /\ before.gameLoopIntervalId \in DOMAIN timers
                    /\ Count(cleared', before.gameLoopIntervalId) = 1
                    /\ \A h \in DOMAIN timers' : timers'[h].room # rid
                    /\ after.gameLoopIntervalId = 0
                    /\ after.playAgainRequests = {}
       /\ \A s \in Sockets :
             (/\ last'.op = "requestPlayAgain" /\ last'.who = s /\ conn[s].connected
              /\ StatusAt(activeRooms, conn[s].playerRoomId) = "gameOver"
              /\ ~ScoreReached(GS(RoomOf(activeRooms, conn[s].playerRoomId)))) =>
                 /\ ~Restarted
                 /\ activeRooms' = activeRooms
                 /\ timers' = timers]_vars

\* C14 witness: the participant left behind by a disconnect during Playing has
\* just asked for a rematch; its session is still gameOver with no timer.
C14_Witness ==
    /\ last.op = "requestPlayAgain"
    /\ LET room == RoomOf(activeRooms, conn[last.who].playerRoomId) IN
          /\ PlayerIds(room) = {last.who}
          /\ StatusOf(room) = "gameOver"
          /\ ~ScoreReached(GS(room))
          /\ room.gameLoopIntervalId = 0
          /\ room.playAgainRequests = {}
    /\ "gameStart" \notin Events(out)

\* Participant s sends a paddleMove in this step.
SendsPaddleMove(s) == last'.op = "paddleMove" /\ last'.who = s /\ conn[s].connected
InPlay(s) == StatusAt(activeRooms, conn[s].playerRoomId) = "playing"

\* C15: a paddleMove received while the sender's session has no GameState or
\* a status other than playing changes no session, GameState, timer or
\* rematch-request set and emits nothing.
C15_PaddleMoveIgnoredOutsidePlaying ==
    [][\A s \in Sockets :
          (SendsPaddleMove(s) /\ ~InPlay(s)) =>
              /\ activeRooms' = activeRooms
              /\ timers' = timers
              /\ conn' = conn
              /\ out' = <<>>
              /\ cleared' = <<>>]_vars

\* C15 witness: a paddleMove has just been received in a session that is
\* gameOver by score with both participants seated; nothing was emitted.
C15_Witness ==
    /\ last.op = "paddleMove"
    /\ out = <<>>
    /\ LET room == RoomOf(activeRooms, conn[last.who].playerRoomId) IN
          /\ StatusOf(room) = "gameOver"
          /\ ScoreReached(GS(room))
          /\ Len(room.players) = 2

\* The paddle of participant s in the given registry.
PaddleOf(rooms, s) ==
    LET gs == GS(RoomOf(rooms, conn[s].playerRoomId)) IN
    IF conn[s].playerNumber = 1 THEN gs.player1Paddle ELSE gs.player2Paddle

\* C16: while status is playing, the step that receives a paddleMove sets the
\* sender's paddle to y' = max(0, y - 15) for "up" and y' = min(500, y + 15)
\* for "down"; the new y is in the state right after that step, before any tick.
C16_PaddleStepAndClamp ==
    [][\A s \in Sockets :
          (SendsPaddleMove(s) /\ InPlay(s)) =>
              LET y == PaddleOf(activeRooms, s).y
                  y1 == PaddleOf(activeRooms', s).y
              IN /\ last'.arg = "up" => y1 = (IF y - 15 > 0 THEN y - 15 ELSE 0)
                 /\ last'.arg = "down" => y1 = (IF y + 15 < 500 THEN y + 15 ELSE 500)
                 /\ timers' = timers]_vars

\* C16 witness: seat 1's single "up", received before any tick, stopped its
\* paddle at the top of the arena (it was less than 15 px away).
C16_Witness ==
    /\ last.op = "paddleMove" /\ last.who = 1 /\ last.arg = "up"
    /\ moves = 1
    /\ \A h \in DOMAIN timers : timers[h].fired = 0
    /\ PaddleOf(activeRooms, 1).y = 0

\* The registry with the y of participant s's paddle set to y1 and nothing
\* else touched.
WithPaddleAt(rooms, s, y1) ==
    LET i == RoomIndex(rooms, conn[s].playerRoomId) IN
    IF conn[s].playerNumber = 1
    THEN [rooms EXCEPT ![i].gameState[1].player1Paddle.y = y1]
    ELSE [rooms EXCEPT ![i].gameState[1].player2Paddle.y = y1]

\* C17: a paddleMove from the participant in seat s changes nothing but the y
\* of seat s's paddle (the opponent's paddle, the ball, the scores, the status,
\* the timer and the rematch-request set stay as they are, and nothing is
\* emitted), and that y moves by at most 15 px.
C17_OnlyOwnPaddleMoves ==
    [][\A s \in Sockets :
          (SendsPaddleMove(s) /\ InPlay(s)) =>
              LET y == PaddleOf(activeRooms, s).y
                  y1 == PaddleOf(activeRooms', s).y
              IN /\ activeRooms' = WithPaddleAt(activeRooms, s, y1)
                 /\ Abs(y1 - y) <= PADDLE_SPEED
                 /\ timers' = timers
                 /\ conn' = conn
                 /\ out' = <<>> /\ cleared' = <<>>]_vars

\* C17 witness: after one tick, seat 2 sent "down": its paddle is 15 px lower
\* and seat 1's paddle is where it was drawn.
C17_Witness ==
    /\ last.op = "paddleMove" /\ last.who = 2 /\ last.arg = "down"
    /\ moves = 1
    /\ timers[1].fired = 1
    /\ PaddleOf(activeRooms, 2).y = 265
    /\ PaddleOf(activeRooms, 1).y = 10

\* The step is a tick of the timer of a Playing session rid.
TicksPlaying(rid) ==
    /\ last'.op = "tick"
    /\ last'.who \in DOMAIN timers
    /\ timers[last'.who].room = rid
    /\ StatusAt(activeRooms, rid) = "playing"

\* The tick sees the paddles exactly as the inputs received so far left them.
TickSeesPaddles(rid) ==
    LET gs == GS(RoomOf(activeRooms, rid))
        moved == Integrate(gs)
        hit1 == Overlaps(moved.ball, gs.player1Paddle) /\ moved.ball.speedX < 0
        hit2 == Overlaps(moved.ball, gs.player2Paddle) /\ moved.ball.speedX > 0
        after == GS(RoomOf(activeRooms', rid))
    IN /\ hits' = (IF hit1 THEN <<1>> ELSE <<>>) \o (IF hit2 THEN <<2>> ELSE <<>>)
       /\ hit1 => Abs(after.ball.speedY) = Abs(BounceSpeedY(moved.ball, gs.player1Paddle))
       /\ hit2 => Abs(after.ball.speedY) = Abs(BounceSpeedY(moved.ball, gs.player2Paddle))
       /\ after.player1Paddle = gs.player1Paddle
       /\ after.player2Paddle = gs.player2Paddle

\* The input is applied to the paddle as the previous inputs left it and
\* touches nothing a tick has computed.
InputAppliesAtOnce(s) ==
    LET gs == GS(RoomOf(activeRooms, conn[s].playerRoomId))
        after == GS(RoomOf(activeRooms', conn[s].playerRoomId))
        y == PaddleOf(activeRooms, s).y
        step == IF last'.arg = "up" THEN -PADDLE_SPEED ELSE PADDLE_SPEED
    IN /\ PaddleOf(activeRooms', s).y = Max(0, Min(y + step, GAME_AREA_HEIGHT - PADDLE_HEIGHT))
       /\ after.ball = gs.ball
       /\ after.score = gs.score
       /\ hits' = <<>>

\* C18: inputs and ticks are atomic steps applied in arrival order: every
\* paddleMove is applied to the paddle as the inputs before it left it (k
\* inputs between two ticks accumulate), a tick's collision test and bounce use
\* the paddle positions of the state it starts from (an input applied before
\* the tick is visible to it), and an input changes nothing a tick computed
\* (an input applied after a tick affects only the next one).
C18_InputsAccumulateBetweenTicks ==
    [][/\ \A rid \in RoomIds(activeRooms) : TicksPlaying(rid) => TickSeesPaddles(rid)
       /\ \A s \in Sockets : (SendsPaddleMove(s) /\ InPlay(s)) => InputAppliesAtOnce(s)]_vars

\* C18 witness: seat 1 sent "down" twice before the first tick; that tick's
\* collision used the paddle at 250 + 30 and bounced the ball at the speed
\* limit (with no input the bounce would have been flat, with one input -4).
C18_Witness ==
    /\ last.op = "tick"
    /\ timers[1].fired = 1
    /\ moves = 2
    /\ hits = <<1>>
    /\ GS(activeRooms[1]).player1Paddle.y = 280
    /\ GS(activeRooms[1]).ball.y = 300
    /\ GS(activeRooms[1]).ball.speedY = -MAX_BALL_SPEED_Y

\* Participant s sends a requestPlayAgain in this step.
SendsRequest(s) == last'.op = "requestPlayAgain" /\ last'.who = s /\ conn[s].connected
\* The session of s is gameOver with a score at 5.
EndedByScoreFor(s) ==
    /\ StatusAt(activeRooms, conn[s].playerRoomId) = "gameOver"
    /\ ScoreReached(GS(RoomOf(activeRooms, conn[s].playerRoomId)))

\* C19: a requestPlayAgain received in a state other than gameOver by score
\* (waiting alone, playing, gameOver after a disconnect) is answered with one
\* message to the requester alone and changes nothing: sessions, GameStates,
\* rematch-request sets and timers are as before.
C19_RequestRejectedOutsideScoreGameOver ==
    [][\A s \in Sockets :
          (SendsRequest(s) /\ ~EndedByScoreFor(s)) =>
              /\ activeRooms' = activeRooms
              /\ timers' = timers
              /\ conn' = conn
              /\ cleared' = <<>>
              /\ Len(out') = 1
              /\ out'[1].ev = "message" /\ out'[1].to = {s}]_vars

\* C19 witness: a participant asked for a rematch in the middle of a game and
\* got the notice; the game goes on with its timer and no request recorded.
C19_Witness ==
    /\ last.op = "requestPlayAgain"
    /\ out = <<[ev |-> "message", to |-> {last.who}, data |-> "Cannot request play again now"]>>
    /\ LET room == RoomOf(activeRooms, conn[last.who].playerRoomId) IN
          /\ StatusOf(room) = "playing"
          /\ room.playAgainRequests = {}
          /\ room.gameLoopIntervalId \in DOMAIN timers

\* Every rematch request on record belongs to a participant seated in that
\* session.
RequestsOnlyFromSeated ==
    \A i \in 1..Len(activeRooms) :
        activeRooms[i].playAgainRequests \subseteq PlayerIds(activeRooms[i])

\* C20: in every reachable state the rematch-request set of a session holds
\* only ids of participants seated in it; the step in which a participant
\* disconnects leaves no request of it anywhere and no request at all in the
\* session it left; and a rematch restarts a game only when the requests on
\* record, with the one just received, are those of the two seated participants.
C20_DepartedRequestDiscarded ==
    /\ []RequestsOnlyFromSeated
    /\ [][/\ \A s \in Sockets :
                (last'.op = "disconnect" /\ last'.who = s /\ conn[s].connected) =>
                    /\ \A i \in 1..Len(activeRooms') :
                          s \notin activeRooms'[i].playAgainRequests
                    /\ conn[s].playerRoomId \in RoomIds(activeRooms') =>
                          RoomOf(activeRooms', conn[s].playerRoomId).playAgainRequests = {}
          /\ \A s \in Sockets :
                (SendsRequest(s) /\ Restarted) =>
                    LET room == RoomOf(activeRooms, conn[s].playerRoomId) IN
                    /\ room.playAgainRequests \cup {s} = PlayerIds(room)
                    /\ \A p \in PlayerIds(room) : conn[p].connected]_vars

\* C20 witness: a participant has just left a session that is gameOver by
\* score; the participant that stays is seated alone and no request is on record.
C20_Witness ==
    /\ last.op = "disconnect" /\ last.who = 1
    /\ cleared = <<>>
    /\ Len(activeRooms) = 1
    /\ PlayerIds(activeRooms[1]) = {2}
    /\ StatusOf(activeRooms[1]) = "gameOver"
    /\ ScoreReached(GS(activeRooms[1]))
    /\ activeRooms[1].playAgainRequests = {}
    /\ \E k \in 1..Len(out) : out[k].ev = "opponentDisconnected" /\ out[k].to = {2}

\* Every session of the registry has one or two seated participants, and
\* every active timer ticks a session of the registry.
NoEmptySessionNoOrphanTimer ==
    /\ \A i \in 1..Len(activeRooms) : Len(activeRooms[i].players) \in {1, 2}
    /\ \A h \in DOMAIN timers : timers[h].room \in RoomIds(activeRooms)

\* C21: a session leaves the registry in the step in which its last
\* participant disconnects; in every reachable state every session of the
\* registry has one or two seated participants, and no active timer ticks a
\* session that is not in the registry.
C21_RemovedWhenEmpty ==
    /\ []NoEmptySessionNoOrphanTimer
    /\ [][\A s \in Sockets :
             (/\ last'.op = "disconnect" /\ last'.who = s /\ conn[s].connected
              /\ \E i \in 1..Len(activeRooms) : PlayerIds(activeRooms[i]) = {s}) =>
                 /\ conn[s].playerRoomId \notin RoomIds(activeRooms')
                 /\ Len(activeRooms') = Len(activeRooms) - 1]_vars

\* C21 witness: both participants of the first session have left, the second
\* after the first; that session is gone, the one opened for the third
\* participant remains, and no timer is active.
C21_Witness ==
    /\ last.op = "disconnect"
    /\ Len(activeRooms) = 1
    /\ activeRooms[1].roomId = 2
    /\ PlayerIds(activeRooms[1]) = {3}
    /\ timers = <<>>
    /\ out = <<>>

\* The session a step belongs to: the one its timer ticks, or the one of the
\* participant whose event it serves (0 for a connection).
SessionOfStep ==
    IF last'.op = "tick"
    THEN (IF last'.who \in DOMAIN timers THEN timers[last'.who].room ELSE 0)
    ELSE IF last'.op \in {"paddleMove", "requestPlayAgain", "disconnect"}
    THEN conn[last'.who].playerRoomId
    ELSE 0
\* The record of session rid and the timers that tick it, by direct search.
SessionsWithId(rooms, rid) == {rooms[i] : i \in {j \in 1..Len(rooms) : rooms[j].roomId = rid}}
TimersOf(tm, rid) == {h \in DOMAIN tm : tm[h].room = rid}

\* C22: a tick, paddleMove, requestPlayAgain or disconnect that belongs to
\* session A leaves every other session B as it was: its participants, its
\* GameState, its timer and its rematch-request set.
C22_SessionsIndependent ==
    [][SessionOfStep # 0 =>
          \A rid \in RoomIds(activeRooms) \ {SessionOfStep} :
              /\ SessionsWithId(activeRooms', rid) = SessionsWithId(activeRooms, rid)
              /\ TimersOf(timers', rid) = TimersOf(timers, rid)
              /\ \A h \in TimersOf(timers, rid) : timers'[h] = timers[h]]_vars

\* C22 witness: a paddle has just been moved in a game in progress while a
\* second session, with one participant waiting, is in the registry.
C22_Witness ==
    /\ last.op = "paddleMove"
    /\ moves = 1
    /\ Len(activeRooms) = 2
    /\ conn[last.who].playerRoomId = activeRooms[1].roomId
    /\ StatusOf(activeRooms[1]) = "playing"
    /\ PlayerIds(activeRooms[2]) = {3}

\* Scenario A: seat-1 paddle at (50, 250) sized 10 x 100, ball at (58, 270)
\* with radius 10 and velocity (-5, 0), in a game that is playing.
ScenarioA(gs) ==
    /\ gs.status = "playing"
    /\ gs.player1Paddle = [x |-> 50, y |-> 250, width |-> 10, height |-> 100]
    /\ gs.ball = [x |-> 58, y |-> 270, radius |-> 10, speedX |-> -5, speedY |-> 0]

\* C23: one tick from Scenario A runs the seat-1 collision response and
\* leaves speedX = +5, speedY = -7 and ball.x = 70.
C23_ScenarioA ==
    [][\A rid \in RoomIds(activeRooms) :
          (TicksPlaying(rid) /\ ScenarioA(GS(RoomOf(activeRooms, rid)))) =>
              LET ball == GS(RoomOf(activeRooms', rid)).ball IN
              /\ hits' = <<1>>
              /\ ball.speedX = 5
              /\ ball.speedY = -7
              /\ ball.x = 70]_vars

\* C23 witness: the first tick, with no input before it, bounced the ball off
\* the seat-1 paddle at 250: the ball is at (70, 270) with velocity (5, -7).
C23_Witness ==
    /\ last.op = "tick"
    /\ moves = 0
    /\ timers[1].fired = 1
    /\ hits = <<1>>
    /\ GS(activeRooms[1]).player1Paddle.y = 250
    /\ GS(activeRooms[1]).ball = [x |-> 70, y |-> 270, radius |-> 10, speedX |-> 5, speedY |-> -7]

\* The positions in the log o of the events ev addressed to participant p.
SentTo(o, ev, p) == {k \in 1..Len(o) : o[k].ev = ev /\ p \in o[k].to}
\* Participant p is told its seat n at position k of the log o.
AssignsSeat(o, k, p, n) ==
    o[k].ev = "playerAssignment" /\ o[k].to = {p} /\ o[k].data.playerNumber = n

\* The first participant connects to an empty registry.
FirstOfTwo(s) == Admits(s) /\ activeRooms = <<>>
\* The second participant connects while the first waits alone.
SecondOfTwo(s) ==
    /\ Admits(s)
    /\ Len(activeRooms) = 1
    /\ Len(activeRooms[1].players) = 1
    /\ ~HasGameState(activeRooms[1])

\* C24: of two participants connecting in sequence to an empty registry, the
\* first receives playerAssignment{1} and then waitingForOpponent, the second
\* receives playerAssignment{2}, and both receive gameStart only after their
\* playerAssignment; and in no step does a participant receive gameStart or
\* gameStateUpdate unless it was connected (and so assigned) before the step
\* or its playerAssignment comes earlier in the same step.
C24_SeatAnnouncedBeforeStart ==
    [][/\ \A s \in Sockets : FirstOfTwo(s) =>
             /\ AssignsSeat(out', 1, s, 1)
             /\ out'[2].ev = "waitingForOpponent" /\ out'[2].to = {s}
             /\ SentTo(out', "gameStart", s) = {}
       /\ \A s \in Sockets : SecondOfTwo(s) =>
             LET first == activeRooms[1].players[1].id IN
             /\ \E k \in 1..Len(out') : AssignsSeat(out', k, s, 2)
             /\ SentTo(out', "gameStart", s) # {}
             /\ SentTo(out', "gameStart", first) # {}
             /\ \A m \in SentTo(out', "gameStart", s) :
                   \E k \in 1..(m - 1) : AssignsSeat(out', k, s, 2)
       /\ \A s \in Sockets : Admits(s) =>
             \E k \in 1..Len(out') : AssignsSeat(out', k, s, conn'[s].playerNumber)
       /\ \A m \in 1..Len(out') :
             out'[m].ev \in {"gameStart", "gameStateUpdate"} =>
                 \A p \in out'[m].to :
                     \/ conn[p].connected
                     \/ \E k \in 1..(m - 1) : out'[k].ev = "playerAssignment" /\ out'[k].to = {p}]_vars

\* C24 witness: the second of two participants has just connected: the log of
\* that step tells participant 1 its seat 1 and participant 2 its seat 2 and
\* then starts the game for both.
C24_Witness ==
    /\ last.op = "connection" /\ last.who = 2
    /\ Len(out) = 4
    /\ AssignsSeat(out, 1, 1, 1)
    /\ AssignsSeat(out, 2, 2, 2)
    /\ out[4].ev = "gameStart" /\ out[4].to = {1, 2}
    /\ timers # <<>>

\* Seat 1 of Playing session rid disconnects and seat 2 stays.
Seat1Leaves(rid) ==
    /\ DisconnectCause(rid)
    /\ conn[last'.who].playerNumber = 1
    /\ Survivors(rid) # {}

\* Session i holds a lone participant left behind by a disconnect.
LeftBehind(i) ==
    /\ Len(activeRooms[i].players) = 1
    /\ StatusOf(activeRooms[i]) = "gameOver"

\* C25: when seat 1 disconnects during Playing, seat 2 receives
\* opponentDisconnected and then waitingForOpponent and stays seated alone in
\* the session; the next connection, when that session is the first with a
\* free seat, is paired with it and the game starts; and when seat 2
\* disconnects too, the session leaves the registry.
C25_ScenarioD ==
    [][/\ \A rid \in RoomIds(activeRooms) : Seat1Leaves(rid) =>
             \A r \in Survivors(rid) :
                 /\ conn[r].playerNumber = 2
                 /\ Seating(RoomOf(activeRooms', rid)) = {<<r, 2>>}
                 /\ \E k \in SentTo(out', "opponentDisconnected", r) :
                       \E m \in SentTo(out', "waitingForOpponent", r) : k < m
       /\ \A s \in Sockets, i \in 1..Len(activeRooms) :
             (/\ Admits(s) /\ LeftBehind(i)
              /\ \A j \in 1..(i - 1) : Len(activeRooms[j].players) # 1) =>
                 /\ conn'[s].playerRoomId = activeRooms[i].roomId
                 /\ PlayerIds(activeRooms'[i]) = PlayerIds(activeRooms[i]) \cup {s}
                 /\ StatusOf(activeRooms'[i]) = "playing"
       /\ \A s \in Sockets, i \in 1..Len(activeRooms) :
             (/\ last'.op = "disconnect" /\ last'.who = s /\ conn[s].connected
              /\ LeftBehind(i) /\ PlayerIds(activeRooms[i]) = {s}) =>
                 activeRooms[i].roomId \notin RoomIds(activeRooms')]_vars

\* C25 witness: seat 1 has just disconnected from a game in progress; seat 2
\* was sent opponentDisconnected, the final state and waitingForOpponent, and
\* sits alone in the session, whose game is over and whose timer is cancelled.
C25_Witness ==
    /\ last.op = "disconnect"
    /\ Len(activeRooms) = 1
    /\ Seating(activeRooms[1]) = {<<2, 2>>}
    /\ StatusOf(activeRooms[1]) = "gameOver"
    /\ Len(out) = 4
    /\ out[1].ev = "opponentDisconnected" /\ out[1].to = {2}
    /\ out[4].ev = "waitingForOpponent" /\ out[4].to = {2}
    /\ Len(cleared) = 1

\* Seat n scores in session rid in this step.
Scores(rid, n) ==
    /\ TicksPlaying(rid)
    /\ LET before == GS(RoomOf(activeRooms, rid)).score
           after == GS(RoomOf(activeRooms', rid)).score
       IN IF n = 1 THEN after.player1 = before.player1 + 1
          ELSE after.player2 = before.player2 + 1
AtCentre(ball) == ball.x = GAME_AREA_WIDTH \div 2 /\ ball.y = GAME_AREA_HEIGHT \div 2

\* C26 as stated: after a score the ball is at the centre of the arena and
\* moves towards the player who was scored upon: to the left (towards seat 1)
\* after seat 2 scores, to the right (towards seat 2) after seat 1 scores.
C26_ServeTowardsScoredUpon ==
    [][\A rid \in RoomIds(activeRooms) :
          LET ball == GS(RoomOf(activeRooms', rid)).ball IN
          /\ Scores(rid, 2) => (AtCentre(ball) /\ ball.speedX < 0)
          /\ Scores(rid, 1) => (AtCentre(ball) /\ ball.speedX > 0)]_vars

\* C26 witness: seat 2 has just scored its fifth point at 4-4 and the ball,
\* back at the centre, moves to the right, towards seat 2 itself.
C26_Witness ==
    /\ last.op = "tick"
    /\ Len(activeRooms) = 1
    /\ GS(activeRooms[1]).score = [player1 |-> 4, player2 |-> 5]
    /\ AtCentre(GS(activeRooms[1]).ball)
    /\ GS(activeRooms[1]).ball.speedX = INITIAL_BALL_SPEED

\* The ball as resetBall leaves it after seat n scored.
ServedAfter(ball, n) ==
    /\ ball.x = 400 /\ ball.y = 300
    /\ ball.speedX = (IF n = 1 THEN -5 ELSE 5)
    /\ 1 <= Abs(ball.speedY) /\ Abs(ball.speedY) <= 4

BounceOff(ball, paddle) ==
    LET raw == MulPct(ball.y - (paddle.y + paddle.height \div 2), 30) IN
    IF raw > 7 THEN 7 ELSE IF raw < -7 THEN -7 ELSE raw
BoxesOverlap(ball, paddle) ==
    /\ ball.x - ball.radius < paddle.x + paddle.width
    /\ ball.x + ball.radius > paddle.x
    /\ ball.y - ball.radius < paddle.y + paddle.height
    /\ ball.y + ball.radius > paddle.y
\* The wall step of the same tick inverts speedY when the ball is past a wall.
PastWall(ball) == ball.y - ball.radius < 0 \/ ball.y + ball.radius > GAME_AREA_HEIGHT
AfterWall(ball, vy) == IF PastWall(ball) THEN -vy ELSE vy

\* What one tick of Playing session rid does about the paddles.
PaddleResponse(rid) ==
    LET gs == GS(RoomOf(activeRooms, rid))
        b == [gs.ball EXCEPT !.x = @ + gs.ball.speedX, !.y = @ + gs.ball.speedY]
        p1 == gs.player1Paddle
        p2 == gs.player2Paddle
        after == GS(RoomOf(activeRooms', rid)).ball
    IN /\ (BoxesOverlap(b, p1) /\ b.speedX < 0) =>
             /\ after.speedX = -b.speedX
             /\ after.speedY = AfterWall(b, BounceOff(b, p1))
             /\ after.x = p1.x + p1.width + b.radius
             /\ after.x = 70
       /\ (BoxesOverlap(b, p2) /\ b.speedX > 0) =>
             /\ after.speedX = -b.speedX
             /\ after.speedY = AfterWall(b, BounceOff(b, p2))
             /\ after.x = p2.x - b.radius
             /\ after.x = 730
       /\ ((BoxesOverlap(b, p1) /\ b.speedX > 0) \/ (BoxesOverlap(b, p2) /\ b.speedX < 0)) =>
             /\ after.speedX = b.speedX
             /\ after.speedY = AfterWall(b, b.speedY)
             /\ after.x = b.x
             /\ hits' = <<>>

\* C28: in a tick, if after integration the ball's bounding box overlaps the
\* seat-1 paddle and speedX < 0, then speedX is negated, speedY becomes
\* (ball.y - paddleCenterY) * 0.30 limited to [-7, 7] and ball.x becomes
\* paddle.x + paddle.width + radius (70); the seat-2 response is the mirror
\* image for speedX > 0 with ball.x = paddle.x - radius (730); a ball that
\* overlaps a paddle while moving away from it keeps its velocity and position.
C28_PaddleCollisionResponse ==
    [][\A rid \in RoomIds(activeRooms) : TicksPlaying(rid) => PaddleResponse(rid)]_vars

\* C28 witness: the first tick bounced the ball off the seat-2 paddle, above
\* its centre: it is at x = 730 moving left and upwards at less than the limit.
C28_Witness ==
    /\ last.op = "tick"
    /\ timers[1].fired = 1
    /\ hits = <<2>>
    /\ GS(activeRooms[1]).ball.x = 730
    /\ GS(activeRooms[1]).ball.speedX = -5
    /\ GS(activeRooms[1]).ball.speedY < 0
    /\ GS(activeRooms[1]).ball.speedY > -7

Hit(log) == {log[k] : k \in 1..Len(log)}

\* C29: the collision response of one paddle never runs in two consecutive
\* ticks of a session, whatever inputs arrive between them, and the two
\* responses never both run in one tick.
C29_NoRepeatedCollision ==
    [][\A rid \in RoomIds(activeRooms) :
          TicksPlaying(rid) =>
              /\ Hit(timers[last'.who].hits) \cap Hit(hits') = {}
              /\ Len(hits') <= 1]_vars

\* C29 witness: the first tick bounced the ball off the seat-1 paddle, an
\* input moved that paddle, and the second tick ran without a collision: the
\* ball is 5 px past the paddle's face with the speed the bounce gave it.
C29_Witness ==
    /\ last.op = "tick"
    /\ timers[1].fired = 2
    /\ moves = 2
    /\ hits = <<>>
    /\ timers[1].hits = <<>>
    /\ GS(activeRooms[1]).ball.x = 75
    /\ GS(activeRooms[1]).ball.speedX = 5
    /\ GS(activeRooms[1]).ball.speedY = -4

BallInsideWalls ==
    \A gs \in GameStates :
        BALL_RADIUS <= gs.ball.y /\ gs.ball.y <= GAME_AREA_HEIGHT - BALL_RADIUS

\* What one tick of Playing session rid does about the walls.
WallResponse(rid) ==
    LET gs == GS(RoomOf(activeRooms, rid))
        b == [gs.ball EXCEPT !.x = @ + gs.ball.speedX, !.y = @ + gs.ball.speedY]
        after == GS(RoomOf(activeRooms', rid))
    IN (PastWall(b) /\ after.score = gs.score) =>
           /\ hits' = <<>> => after.ball.speedY = -b.speedY
           /\ b.y - b.radius < 0 => after.ball.y = 10
           /\ b.y + b.radius > GAME_AREA_HEIGHT => after.ball.y = 590

\* C30: in a tick in which the ball's top edge is above 0 or its bottom edge
\* below the arena height, speedY is inverted and ball.y is put on the
\* boundary (10 or 590); in every reachable state 10 <= ball.y <= 590.
C30_WallReflection ==
    /\ []BallInsideWalls
    /\ [][\A rid \in RoomIds(activeRooms) : TicksPlaying(rid) => WallResponse(rid)]_vars

\* C30 witness: the first tick took the ball (y = 15, speedY = -7) past the
\* top wall; it is back at y = 10 and moves down at 7.
C30_Witness ==
    /\ last.op = "tick"
    /\ timers[1].fired = 1
    /\ hits = <<>>
    /\ GS(activeRooms[1]).ball.y = 10
    /\ GS(activeRooms[1]).ball.speedY = 7

\* The x of the ball of game gs after the integration and the paddle responses
\* of one tick (the wall step leaves x alone).
XAfterPaddles(gs) ==
    LET b == [gs.ball EXCEPT !.x = @ + gs.ball.speedX, !.y = @ + gs.ball.speedY]
        p1 == gs.player1Paddle
        p2 == gs.player2Paddle
    IN IF BoxesOverlap(b, p1) /\ b.speedX < 0 THEN p1.x + p1.width + b.radius
       ELSE IF BoxesOverlap(b, p2) /\ b.speedX > 0 THEN p2.x - b.radius
       ELSE b.x

\* What one tick of Playing session rid does to the score.
ScoreStep(rid) ==
    LET gs == GS(RoomOf(activeRooms, rid))
        x == XAfterPaddles(gs)
        old == gs.score
        new == GS(RoomOf(activeRooms', rid)).score
        d1 == new.player1 - old.player1
        d2 == new.player2 - old.player2
    IN /\ d1 \in {0, 1} /\ d2 \in {0, 1} /\ d1 + d2 <= 1
       /\ d2 = 1 <=> x + gs.ball.radius < 0
       /\ d1 = 1 <=> x - gs.ball.radius > GAME_AREA_WIDTH

\* A step within one Playing period of session rid.
StaysPlaying(rid) ==
    /\ StatusAt(activeRooms, rid) = "playing"
    /\ StatusAt(activeRooms', rid) = "playing"
    /\ "gameStart" \notin Events(out')

\* C31: in a tick of a Playing session the seat-2 score increments by exactly 1
\* iff, after integration, collisions and wall reflection, ball.x + radius < 0,
\* and the seat-1 score increments by exactly 1 iff ball.x - radius > 800;
\* otherwise both scores are unchanged; at most one score changes per tick, and
\* no step within a Playing period decreases a score.
C31_ScoringInTick ==
    [][\A rid \in RoomIds(activeRooms) :
          /\ TicksPlaying(rid) => ScoreStep(rid)
          /\ StaysPlaying(rid) =>
                /\ GS(RoomOf(activeRooms', rid)).score.player1 >=
                       GS(RoomOf(activeRooms, rid)).score.player1
                /\ GS(RoomOf(activeRooms', rid)).score.player2 >=
                       GS(RoomOf(activeRooms, rid)).score.player2]_vars

\* C31 witness: the fourth tick took the ball past the left goal line at 4-3:
\* seat 2 has its fourth point, the game goes on and the ball is back at the
\* centre.
C31_Witness ==
    /\ last.op = "tick"
    /\ Len(activeRooms) = 1
    /\ timers # <<>>
    /\ StatusOf(activeRooms[1]) = "playing"
    /\ GS(activeRooms[1]).score = [player1 |-> 4, player2 |-> 4]
    /\ AtCentre(GS(activeRooms[1]).ball)

\* The log o ends with the snapshot gs sent to the participants to.
EndsWithSnapshot(o, to, gs) ==
    /\ Len(o) >= 1
    /\ o[Len(o)].ev = "gameStateUpdate"
    /\ o[Len(o)].to = to
    /\ o[Len(o)].data = gs
    /\ Cardinality(EventsOf(o, "gameStateUpdate")) = 1

\* C32: every tick executed while the status is playing emits one
\* gameStateUpdate that carries the full GameState, as the tick leaves it, to
\* the session's participants; in a tick in which a point is scored that
\* snapshot already holds the new score and the re-served ball.
C32_SnapshotEveryTick ==
    [][\A rid \in RoomIds(activeRooms) :
          TicksPlaying(rid) =>
              LET room == RoomOf(activeRooms, rid)
                  after == GS(RoomOf(activeRooms', rid))
                  snap == out'[Len(out')].data
              IN /\ EndsWithSnapshot(out', PlayerIds(room), after)
                 /\ Cardinality(PlayerIds(room)) = 2
                 /\ (Scores(rid, 1) \/ Scores(rid, 2)) =>
                        /\ snap.score # GS(room).score
                        /\ snap.score = after.score
                        /\ AtCentre(snap.ball)
                        /\ Abs(snap.ball.speedX) = INITIAL_BALL_SPEED]_vars

\* C32 witness: the tick in which seat 2 scored at 4-3 sent both participants
\* one snapshot, with the score 4-4, the status playing and the ball at the
\* centre.
C32_Witness ==
    /\ last.op = "tick"
    /\ Len(out) = 1
    /\ out[1].ev = "gameStateUpdate"
    /\ out[1].to = {1, 2}
    /\ out[1].data.status = "playing"
    /\ out[1].data.score = [player1 |-> 4, player2 |-> 4]
    /\ AtCentre(out[1].data.ball)

\* updateGame runs on session rid, which has no GameState or is not Playing.
RunsOutsidePlaying(rid) ==
    /\ last'.op = "updateGame"
    /\ last'.who = rid
    /\ StatusAt(activeRooms, rid) # "playing"

\* C33: a run of the tick callback on a session that has no GameState or whose
\* status is not playing changes nothing: ball, paddles, scores, status,
\* timer handle, timers and rematch requests are as before, and nothing is
\* emitted.
C33_CallbackOutsidePlayingIsNoOp ==
    [][\A rid \in RoomIds(activeRooms) :
          RunsOutsidePlaying(rid) =>
              /\ activeRooms' = activeRooms
              /\ timers' = timers
              /\ conn' = conn
              /\ out' = <<>>
              /\ cleared' = <<>>]_vars

\* C33 witness: the callback has just run on a session that a disconnect left
\* GameOver with one participant; nothing was sent and the game is as it was.
C33_Witness ==
    /\ last.op = "updateGame"
    /\ out = <<>>
    /\ \E i \in 1..Len(activeRooms) :
          /\ activeRooms[i].roomId = last.who
          /\ StatusOf(activeRooms[i]) = "gameOver"
          /\ Len(activeRooms[i].players) = 1

\* C34: in every reachable state the status of an existing GameState is
\* playing or gameOver: waiting and paused are never assigned, so no run of
\* updateGame finds the status paused.
C34_StatusPlayingOrGameOver ==
    \A i \in 1..Len(activeRooms) :
        /\ HasGameState(activeRooms[i]) => GS(activeRooms[i]).status \in {"playing", "gameOver"}
        /\ StatusOf(activeRooms[i]) \notin {"waiting", "paused"}

\* C34 witness: a disconnect has just ended a game at 4-4: the survivor's
\* session keeps its GameState, with the status gameOver.
C34_Witness ==
    /\ last.op = "disconnect"
    /\ Len(activeRooms) = 1
    /\ Len(activeRooms[1].players) = 1
    /\ HasGameState(activeRooms[1])
    /\ GS(activeRooms[1]).status = "gameOver"
    /\ GS(activeRooms[1]).score = [player1 |-> 4, player2 |-> 4]

\* Session i has an active tick driver: a live interval timer that ticks it.
HasDriver(i) == TimersOf(timers, activeRooms[i].roomId) # {}

\* C35: in every reachable state a session has an active tick driver if and
\* only if it has a GameState whose status is playing, and then exactly two
\* participants are seated in it and the handle it holds is that of its one
\* timer; no timer ticks a session that has left the registry.
C35_DriverIffPlaying ==
    /\ \A i \in 1..Len(activeRooms) :
          /\ HasDriver(i) <=> StatusOf(activeRooms[i]) = "playing"
          /\ HasDriver(i) =>
                /\ Len(activeRooms[i].players) = 2
                /\ TimersOf(timers, activeRooms[i].roomId) = {activeRooms[i].gameLoopIntervalId}
          /\ ~HasDriver(i) => activeRooms[i].gameLoopIntervalId = 0
    /\ \A h \in DOMAIN timers : timers[h].room \in RoomIds(activeRooms)

\* C35 witness: a newcomer has just been seated beside the survivor of a game
\* that a disconnect ended: the session is Playing again with two participants
\* and one new timer, the old one having been cleared by the disconnect.
C35_Witness ==
    /\ last.op = "connection"
    /\ cleared = <<>>
    /\ Len(activeRooms) = 1
    /\ Len(activeRooms[1].players) = 2
    /\ StatusOf(activeRooms[1]) = "playing"
    /\ GS(activeRooms[1]).score = [player1 |-> 0, player2 |-> 0]
    /\ DOMAIN timers = {activeRooms[1].gameLoopIntervalId}

\* C36: in every reachable state both scores are in 0..5, at most one of them
\* is 5, and while the status is playing both are below 5.
C36_ScoresBounded ==
    \A gs \in GameStates :
        /\ gs.score.player1 \in 0..WINNING_SCORE
        /\ gs.score.player2 \in 0..WINNING_SCORE
        /\ ~(gs.score.player1 = WINNING_SCORE /\ gs.score.player2 = WINNING_SCORE)
        /\ gs.status = "playing" =>
              (gs.score.player1 < WINNING_SCORE /\ gs.score.player2 < WINNING_SCORE)

\* C36 witness: the tick in which seat 1 scored its fifth point at 4-4 left
\* the game GameOver at 5-4.
C36_Witness ==
    /\ last.op = "tick"
    /\ Len(activeRooms) = 1
    /\ GS(activeRooms[1]).status = "gameOver"
    /\ GS(activeRooms[1]).score.player1 = WINNING_SCORE
    /\ GS(activeRooms[1]).score.player2 = WINNING_SCORE - 1

\* C37: in every reachable state the horizontal speed of the ball is 5 or -5:
\* serves, paddle collisions and score resets only change its sign.
C37_HorizontalSpeedConstant ==
    \A gs \in GameStates : gs.ball.speedX \in {INITIAL_BALL_SPEED, -INITIAL_BALL_SPEED}

\* C37 witness: the ball, which came in at -5, has just been returned by the
\* seat-1 paddle and leaves its face at +5.
C37_Witness ==
    /\ last.op = "tick"
    /\ hits = <<1>>
    /\ GS(activeRooms[1]).ball.x = PADDLE_OFFSET_X + PADDLE_WIDTH + BALL_RADIUS
    /\ GS(activeRooms[1]).ball.speedX = INITIAL_BALL_SPEED

\* The messages of the log o.
Messages(o) == {o[k].data : k \in EventsOf(o, "message")}

\* C38: whenever a session has two seated participants and the status
\* gameOver, some score is >= 5: a GameOver caused by a disconnect never
\* coexists with two seated participants, because admitting a newcomer into
\* the survivor's session restarts the game in the same step; so no
\* requestPlayAgain is answered "Game did not end by score".
C38_FullGameOverEndedByScore ==
    /\ [](\A i \in 1..Len(activeRooms) :
             (Len(activeRooms[i].players) = 2 /\ StatusOf(activeRooms[i]) = "gameOver") =>
                 ScoreReached(GS(activeRooms[i])))
    /\ []("Game did not end by score" \notin Messages(out))
    /\ [][\A s \in Sockets, i \in 1..Len(activeRooms) :
             (Admits(s) /\ LeftBehind(i) /\ conn'[s].playerRoomId = activeRooms[i].roomId) =>
                 /\ StatusOf(activeRooms'[i]) = "playing"
                 /\ ~ScoreReached(GS(activeRooms'[i]))]_vars

\* C38 witness: at 5-4, with both participants seated and the game over, a
\* rematch request has passed the ended-by-score check and been registered.
C38_Witness ==
    /\ last.op = "requestPlayAgain"
    /\ "Request sent" \in Messages(out)
    /\ Len(activeRooms) = 1
    /\ Len(activeRooms[1].players) = 2
    /\ StatusOf(activeRooms[1]) = "gameOver"
    /\ ScoreReached(GS(activeRooms[1]))
    /\ activeRooms[1].playAgainRequests = {last.who}

\* The sessions in which exactly one participant is seated.
LoneSessions == {i \in 1..Len(activeRooms) : Len(activeRooms[i].players) = 1}

\* C39 as stated: in every reachable state at most one session of the
\* registry has exactly one seated participant: two half-filled sessions
\* whose lone participants wait for an opponent never coexist.
C39_AtMostOneHalfFilled == Cardinality(LoneSessions) <= 1

\* C39 witness: two sessions hold one connected participant each, and each of
\* the two has been told to wait for an opponent: one by the connection that
\* created its session, the other by the disconnect of its opponent.
C39_Witness ==
    /\ Cardinality(LoneSessions) = 2
    /\ \A i \in LoneSessions : conn[activeRooms[i].players[1].id].connected
    /\ \E i \in LoneSessions : ~HasGameState(activeRooms[i])
    /\ \E i \in LoneSessions :
          /\ StatusOf(activeRooms[i]) = "gameOver"
          /\ SentTo(out, "waitingForOpponent", activeRooms[i].players[1].id) # {}

\* The places (session, position) at which participant s is seated.
SeatsOf(s) ==
    {p \in (1..Len(activeRooms)) \X {1, 2} :
        p[2] <= Len(activeRooms[p[1]].players) /\ activeRooms[p[1]].players[p[2]].id = s}

\* C40: in every reachable state each connected participant is seated in
\* exactly one session (the one its connection refers to) and nobody else is
\* seated; the two participants of a full session hold distinct seats, the
\* seat-1 participant first in the list.
C40_SeatedOnceDistinctSeats ==
    /\ \A s \in Sockets :
          IF conn[s].connected
          THEN /\ Cardinality(SeatsOf(s)) = 1
               /\ \A p \in SeatsOf(s) :
                     /\ activeRooms[p[1]].roomId = conn[s].playerRoomId
                     /\ activeRooms[p[1]].players[p[2]].playerNumber = conn[s].playerNumber
          ELSE SeatsOf(s) = {}
    /\ \A i \in 1..Len(activeRooms) :
          /\ PlayerIds(activeRooms[i]) \subseteq Sockets
          /\ Len(activeRooms[i].players) = 2 =>
                /\ activeRooms[i].players[1].playerNumber = 1
                /\ activeRooms[i].players[2].playerNumber = 2
                /\ activeRooms[i].players[1].id # activeRooms[i].players[2].id

\* C40 witness: a newcomer has just taken seat 1 beside a survivor who holds
\* seat 2, while a third participant waits in a second session: the newcomer,
\* pushed last, stands first in the list.
C40_Witness ==
    /\ last.op = "connection" /\ last.who = 1
    /\ Len(activeRooms) = 2
    /\ activeRooms[1].players = <<[id |-> 1, playerNumber |-> 1], [id |-> 2, playerNumber |-> 2]>>
    /\ activeRooms[2].players = <<[id |-> 3, playerNumber |-> 1]>>
    /\ \A s \in Sockets : conn[s].connected
====
